---- MODULE Spec2Model ----
(***************************************************************************)
(* Lead Finder Pro: the response-parsing layer (services/geminiService.ts) *)
(* and the orchestration handlers of the root component (App.tsx).         *)
(*                                                                         *)
(* Text is a sequence of one-character strings, so that split, trim,       *)
(* indexOf, includes and parseFloat are computed character by character.   *)
(* An optional field of a record is <<>> when absent and <<v>> when set.   *)
(***************************************************************************)
EXTENDS Integers, Sequences, FiniteSets, TLC

None == <<>>
Some(v) == <<v>>

(***************************************************************************)
(* JavaScript string primitives used by the source.                        *)
(***************************************************************************)
WhiteSpace == {" ", "\n", "\t", "\r"}

RECURSIVE trimStart(_)
trimStart(s) ==
    IF s # <<>> /\ Head(s) \in WhiteSpace THEN trimStart(Tail(s)) ELSE s

RECURSIVE trimEnd(_)
trimEnd(s) ==
    IF s # <<>> /\ s[Len(s)] \in WhiteSpace
    THEN trimEnd(SubSeq(s, 1, Len(s) - 1))
    ELSE s

trim(s) == trimEnd(trimStart(s))

\* p occurs in s at the 1-based position i
OccursAt(s, p, i) ==
    /\ i + Len(p) - 1 <= Len(s)
    /\ SubSeq(s, i, i + Len(p) - 1) = p

\* String.prototype.indexOf: 0-based position of the first occurrence, or -1
indexOf(s, p) ==
    IF \E i \in 1..Len(s) : OccursAt(s, p, i)
    THEN (CHOOSE i \in 1..Len(s) :
            /\ OccursAt(s, p, i)
            /\ \A j \in 1..(i - 1) : ~OccursAt(s, p, j)) - 1
    ELSE -1

includes(s, p) == indexOf(s, p) # -1

startsWith(s, p) == OccursAt(s, p, 1)

\* String.prototype.substring(start) with a 0-based start
substring(s, start) == SubSeq(s, start + 1, Len(s))

\* String.prototype.split with a non-empty string separator
RECURSIVE split(_, _)
split(s, sep) ==
    LET i == indexOf(s, sep)
    IN  IF i = -1
        THEN <<s>>
        ELSE <<SubSeq(s, 1, i)>> \o split(substring(s, i + Len(sep)), sep)

\* String.prototype.replace(/p/g, '') for a literal pattern p
RECURSIVE removeAll(_, _)
removeAll(s, p) ==
    LET i == indexOf(s, p)
    IN  IF i = -1
        THEN s
        ELSE SubSeq(s, 1, i) \o removeAll(substring(s, i + Len(p)), p)

UpperCase == <<"A", "B", "C", "D", "E", "F", "G", "H", "I", "J", "K", "L", "M",
               "N", "O", "P", "Q", "R", "S", "T", "U", "V", "W", "X", "Y", "Z">>
LowerCase == <<"a", "b", "c", "d", "e", "f", "g", "h", "i", "j", "k", "l", "m",
               "n", "o", "p", "q", "r", "s", "t", "u", "v", "w", "x", "y", "z">>

lowerChar(c) ==
    IF \E k \in 1..26 : UpperCase[k] = c
    THEN LowerCase[CHOOSE k \in 1..26 : UpperCase[k] = c]
    ELSE c

toLowerCase(s) == [k \in 1..Len(s) |-> lowerChar(s[k])]

(***************************************************************************)
(* JavaScript numbers.  A finite decimal is m * 10^(-e), kept normalised   *)
(* (no trailing zero in the fraction), so that equal numbers are equal     *)
(* records; NaN is the one value with nan = TRUE.  The texts the model     *)
(* feeds to parseFloat contain no exponent part and no "Infinity".         *)
(***************************************************************************)
NaN == [nan |-> TRUE, m |-> 0, e |-> 0]

RECURSIVE Normalise(_, _)
Normalise(m, e) ==
    IF e > 0 /\ m % 10 = 0 THEN Normalise(m \div 10, e - 1)
    ELSE [nan |-> FALSE, m |-> m, e |-> e]

Num(m) == Normalise(m, 0)

isNaN(x) == x.nan

DigitChars == {"0", "1", "2", "3", "4", "5", "6", "7", "8", "9"}

DigitVal(c) ==
    CASE c = "0" -> 0 [] c = "1" -> 1 [] c = "2" -> 2 [] c = "3" -> 3
      [] c = "4" -> 4 [] c = "5" -> 5 [] c = "6" -> 6 [] c = "7" -> 7
      [] c = "8" -> 8 [] c = "9" -> 9

\* the longest prefix of s made of digits
RECURSIVE digitPrefix(_)
digitPrefix(s) ==
    IF s # <<>> /\ Head(s) \in DigitChars
    THEN <<Head(s)>> \o digitPrefix(Tail(s))
    ELSE <<>>

RECURSIVE digitsValue(_)
digitsValue(ds) ==
    IF ds = <<>> THEN 0
    ELSE 10 * digitsValue(SubSeq(ds, 1, Len(ds) - 1)) + DigitVal(ds[Len(ds)])

\* parseFloat: skip leading white space, then the longest prefix that is a
\* signed decimal literal; NaN when there is none
parseFloat(s) ==
    LET t      == trimStart(s)
        signed == t # <<>> /\ Head(t) \in {"+", "-"}
        neg    == t # <<>> /\ Head(t) = "-"
        u      == IF signed THEN Tail(t) ELSE t
        ip     == digitPrefix(u)
        r      == substring(u, Len(ip))
        fp     == IF r # <<>> /\ Head(r) = "."
                  THEN digitPrefix(Tail(r)) ELSE <<>>
        mag    == digitsValue(ip \o fp)
    IN  IF ip = <<>> /\ fp = <<>>
        THEN NaN
        ELSE Normalise(IF neg THEN 0 - mag ELSE mag, Len(fp))

\* parseInt of a run of decimal digits
parseInt(s) ==
    LET t  == trimStart(s)
        ip == digitPrefix(t)
    IN  IF ip = <<>> THEN NaN ELSE Num(digitsValue(ip))

(***************************************************************************)
(* services/geminiService.ts: parseLeads                                   *)
(***************************************************************************)
Delimiter     == <<"-", "-", "-">>
Emphasis      == <<"*", "*">>
NewLine       == <<"\n">>
Colon         == <<":">>
Comma         == <<",">>
AddressLabel  == <<"a", "d", "d", "r", "e", "s", "s", ":">>
TypeLabel     == <<"t", "y", "p", "e", ":">>
CategoryLabel == <<"c", "a", "t", "e", "g", "o", "r", "y", ":">>
PhoneLabel    == <<"p", "h", "o", "n", "e", ":">>
WebsiteLabel  == <<"w", "e", "b", "s", "i", "t", "e", ":">>
CoordsLabel   == <<"c", "o", "o", "r", "d", "i", "n", "a", "t", "e", "s", ":">>
RatingLabel   == <<"r", "a", "t", "i", "n", "g", ":">>

\* the Business object literal of parseLeads; the three scrape fields are
\* absent until handleScrape sets them
newLead(id, name) ==
    [id |-> id, name |-> name, address |-> <<>>, type |-> <<>>,
     phone |-> None, website |-> None, latitude |-> None, longitude |-> None,
     rating |-> None, reviews |-> None,
     scrapedData |-> None, isScraping |-> None, scrapeError |-> None]

\* valueOf that keeps the white space around the value
valueOfUntrimmed(line) == substring(line, indexOf(line, Colon) + 1)

\* line.substring(line.indexOf(':') + 1).trim()
valueOf(line) == trim(substring(line, indexOf(line, Colon) + 1))

\* ratingText.match(/(\d\.\d|\d)/): the leftmost digit, with ".digit" after
\* it when present
ratingMatch(s) ==
    LET ds == {i \in 1..Len(s) : s[i] \in DigitChars}
    IN  IF ds = {} THEN None
        ELSE LET i == CHOOSE k \in ds : \A j \in ds : k <= j
             IN  IF i + 2 <= Len(s) /\ s[i + 1] = "." /\ s[i + 2] \in DigitChars
                 THEN Some(SubSeq(s, i, i + 2))
                 ELSE Some(<<s[i]>>)

\* ratingText.match(/\((\d+)/): group 1 of the leftmost "(" that a digit follows
reviewsMatch(s) ==
    LET ps == {i \in 1..(Len(s) - 1) : s[i] = "(" /\ s[i + 1] \in DigitChars}
    IN  IF ps = {} THEN None
        ELSE LET i == CHOOSE k \in ps : \A j \in ps : k <= j
             IN  Some(digitPrefix(substring(s, i)))

\* parseCoordinates with each coordinate stored on its own test
parseCoordinatesEach(lead, line) ==
    LET toks == split(valueOf(line), Comma)
        lat  == parseFloat(trim(toks[1]))
        lng  == IF Len(toks) >= 2 THEN parseFloat(trim(toks[2])) ELSE NaN
        l1   == IF ~isNaN(lat) THEN [lead EXCEPT !.latitude = Some(lat)] ELSE lead
    IN  IF ~isNaN(lng) THEN [l1 EXCEPT !.longitude = Some(lng)] ELSE l1

\* the coordinates branch: [lat, lng] = coordsText.split(',').map(parseFloat);
\* a missing second token is undefined, for which isNaN is true
parseCoordinates(lead, line) ==
    LET toks == split(valueOf(line), Comma)
        lat  == parseFloat(trim(toks[1]))
        lng  == IF Len(toks) >= 2 THEN parseFloat(trim(toks[2])) ELSE NaN
    IN  IF ~isNaN(lat) /\ ~isNaN(lng)
        THEN [lead EXCEPT !.latitude = Some(lat), !.longitude = Some(lng)]
        ELSE lead

\* the rating branch
parseRating(lead, line) ==
    LET ratingText == valueOf(line)
        rm == ratingMatch(ratingText)
        vm == reviewsMatch(ratingText)
        l1 == IF rm # None THEN [lead EXCEPT !.rating = Some(parseFloat(rm[1]))]
              ELSE lead
    IN  IF vm # None THEN [l1 EXCEPT !.reviews = Some(parseInt(vm[1]))] ELSE l1

\* the body of lines.slice(1).forEach
parseLine(lead, line) ==
    LET lowerLine == toLowerCase(line)
    IN  IF includes(lowerLine, AddressLabel)
        THEN [lead EXCEPT !.address = valueOf(line)]
        ELSE IF includes(lowerLine, TypeLabel) \/ includes(lowerLine, CategoryLabel)
        THEN [lead EXCEPT !.type = valueOf(line)]
        ELSE IF includes(lowerLine, PhoneLabel)
        THEN [lead EXCEPT !.phone = Some(valueOf(line))]
        ELSE IF includes(lowerLine, WebsiteLabel)
        THEN [lead EXCEPT !.website = Some(valueOf(line))]
        ELSE IF includes(lowerLine, CoordsLabel)
        THEN parseCoordinates(lead, line)
        ELSE IF includes(lowerLine, RatingLabel)
        THEN parseRating(lead, line)
        ELSE lead

RECURSIVE parseLines(_, _)
parseLines(lead, lines) ==
    IF lines = <<>> THEN lead
    ELSE parseLines(parseLine(lead, Head(lines)), Tail(lines))

\* markdown.split('---').filter(b => b.trim() !== '')
segmentsOf(markdown) ==
    SelectSeq(split(markdown, Delimiter), LAMBDA b : trim(b) # <<>>)

\* one iteration of businesses.forEach: the lead built from a segment
parseSegment(bizText, id) ==
    LET lines == split(trim(bizText), NewLine)
        name  == trim(removeAll(lines[1], Emphasis))
    IN  parseLines(newLead(id, name), Tail(lines))

\* parseLeads that pushes every lead, whatever its name and address
parseLeadsUnfiltered(markdown, now) ==
    LET businesses == segmentsOf(markdown)
    IN  [k \in 1..Len(businesses) |->
           parseSegment(businesses[k], <<now, k - 1>>)]

\* parseLeads(markdown); now stands for Date.now() and the id is
\* `${Date.now()}-${index}`, index counting the non-empty segments from 0
parseLeads(markdown, now) ==
    LET businesses == segmentsOf(markdown)
        all == [k \in 1..Len(businesses) |->
                  parseSegment(businesses[k], <<now, k - 1>>)]
    IN  SelectSeq(all, LAMBDA lead : lead.name # <<>> /\ lead.address # <<>>)

(***************************************************************************)
(* services/geminiService.ts: searchLeads, scrapeContacts, geocodeAddresses*)
(*                                                                         *)
(* The AI backend is opaque: a call either rejects ("throw") or resolves   *)
(* with a text.  For the two JSON calls the text is either not JSON        *)
(* ("unparsable") or the value JSON.parse returns for it ("json").         *)
(***************************************************************************)
Http == <<"h", "t", "t", "p">>

InvalidUrlMessage ==
    <<"I", "n", "v", "a", "l", "i", "d", " ", "o", "r", " ", "m", "i", "s", "s",
      "i", "n", "g", " ", "w", "e", "b", "s", "i", "t", "e", " ", "U", "R", "L",
      ".">>

ScrapeFailedPrefix ==
    <<"F", "a", "i", "l", "e", "d", " ", "t", "o", " ", "s", "c", "r", "a", "p",
      "e", " ", "c", "o", "n", "t", "a", "c", "t", "s", " ", "f", "o", "r", " ">>

FetchFailedMessage ==
    <<"F", "a", "i", "l", "e", "d", " ", "t", "o", " ", "f", "e", "t", "c", "h",
      " ", "l", "e", "a", "d", "s", " ", "f", "r", "o", "m", " ", "G", "e", "m",
      "i", "n", "i", " ", "A", "P", "I", ".">>

\* the message without the url
scrapeFailedMessageGeneric(websiteUrl) ==
    <<"S", "c", "r", "a", "p", "i", "n", "g", " ", "f", "a", "i", "l", "e", "d", ".">>

\* `Failed to scrape contacts for ${websiteUrl}.`
scrapeFailedMessage(websiteUrl) == ScrapeFailedPrefix \o websiteUrl \o <<".">>

\* the guard of scrapeContacts: !websiteUrl || !websiteUrl.startsWith('http')
invalidUrl(websiteUrl) == websiteUrl = <<>> \/ ~startsWith(websiteUrl, Http)

\* data.emails || []  (an absent key is undefined, which is falsy)
orEmpty(field) == IF field = None THEN <<>> ELSE field[1]

\* scrapeContacts once the url is accepted and the backend has answered:
\* the value the promise resolves with, or the error it rejects with.
\* JSON.parse of the text "null" gives null, and data.emails then throws
\* inside the try block.
scrapeContacts(websiteUrl, response) ==
    IF response.kind = "json" /\ response.data # None
    THEN [ok |-> TRUE,
          value |-> [emails  |-> orEmpty(response.data[1].emails),
                     phones  |-> orEmpty(response.data[1].phones),
                     socials |-> orEmpty(response.data[1].socials)]]
    ELSE [ok |-> FALSE, message |-> scrapeFailedMessage(websiteUrl)]

\* JavaScript values a geocoder response may hold in a latitude/longitude
\* property: undefined (property absent), a number or a string
Undefined == [t |-> "undefined", n |-> NaN, s |-> <<>>]
JsNumber(x) == [t |-> "number", n |-> x, s |-> <<>>]
JsString(x) == [t |-> "string", n |-> NaN, s |-> x]

\* ToBoolean
truthy(v) ==
    CASE v.t = "undefined" -> FALSE
      [] v.t = "number"    -> ~v.n.nan /\ v.n.m # 0
      [] v.t = "string"    -> v.s # <<>>

\* parseFloat applied to a JavaScript value
parseFloatValue(v) ==
    CASE v.t = "undefined" -> NaN
      [] v.t = "number"    -> v.n
      [] v.t = "string"    -> parseFloat(v.s)

\* the test and body of the for-in loop of geocodeAddresses for one key whose
\* value is an object: the pair that is stored, or None
geocodeEntry(entry) ==
    IF truthy(entry.latitude) /\ truthy(entry.longitude)
    THEN LET lat == parseFloatValue(entry.latitude)
             lng == parseFloatValue(entry.longitude)
         IN  IF ~isNaN(lat) /\ ~isNaN(lng)
             THEN Some([latitude |-> lat, longitude |-> lng])
             ELSE None
    ELSE None

\* geocodeAddresses without the early return on an empty request
geocodeAddressesUnguarded(businesses, response) ==
    IF response.kind # "json" THEN << >>
    ELSE IF \E id \in DOMAIN response.data : response.data[id] = None
    THEN << >>
    ELSE LET data == response.data
             kept == {id \in DOMAIN data : geocodeEntry(data[id][1]) # None}
         IN  [id \in kept |-> geocodeEntry(data[id][1])[1]]

\* geocodeAddresses(businesses) given the backend's answer: the Map, as a
\* function from ids to pairs.  response.data is a function from the keys of
\* the JSON object to None (null) or Some(object); reading a property of null
\* throws, and the catch block returns an empty Map.
geocodeAddresses(businesses, response) ==
    IF Len(businesses) = 0 THEN << >>
    ELSE IF response.kind # "json" THEN << >>
    ELSE IF \E id \in DOMAIN response.data : response.data[id] = None
    THEN << >>
    ELSE LET data == response.data
             kept == {id \in DOMAIN data : geocodeEntry(data[id][1]) # None}
         IN  [id \in kept |-> geocodeEntry(data[id][1])[1]]

(***************************************************************************)
(* Bounds of the model and the inputs drawn from the environment.          *)
(***************************************************************************)
\* handleSearch invocations accepted in one behaviour
MaxSearches == 2
\* scrapeContacts backend calls awaiting their answer at the same time
MaxPending == 2

\* App.tsx: the page size of the result list
RESULTS_PER_PAGE == 10

DigitOf == <<"0", "1", "2", "3", "4", "5", "6", "7", "8", "9">>

\* the records of the long FindBusinesses answer: more than one page
LongAnswerRecords == RESULTS_PER_PAGE + 2

\* segment k of the long answer:
\*   "**R<kk>**\nAddress: <kk>\nCoordinates: 1,2\n---\n"
LongSegment(k) ==
    LET kk == <<DigitOf[(k \div 10) + 1], DigitOf[(k % 10) + 1]>>
    IN  <<"*", "*", "R">> \o kk \o <<"*", "*", "\n">>
          \o <<"A", "d", "d", "r", "e", "s", "s", ":", " ">> \o kk \o <<"\n">>
          \o <<"C", "o", "o", "r", "d", "i", "n", "a", "t", "e", "s", ":", " ",
               "1", ",", "2", "\n", "-", "-", "-", "\n">>

RECURSIVE LongMarkdown(_)
LongMarkdown(n) ==
    IF n = 0 THEN <<>> ELSE LongMarkdown(n - 1) \o LongSegment(n)

\* FindBusinesses answers:
\*   1: "**A**\nAddress: 1\nWebsite: http://a\nCoordinates: 4.5, -7\n---\n"
\*      "**B**\nAddress: 2, M\nWebsite: http://b\nCoordinates: 1, x\n---\n"
\*   2: "**D**\nAddress: 4\nWebsite: ftp\nCoordinates: 0,2\n---\n**E**\nPhone: 5\n"
\*   3: " \n---\n"
\*   4: the long answer, LongAnswerRecords records that all have coordinates
Markdowns ==
    << <<"*", "*", "A", "*", "*", "\n",
         "A", "d", "d", "r", "e", "s", "s", ":", " ", "1", "\n",
         "W", "e", "b", "s", "i", "t", "e", ":", " ", "h", "t", "t", "p", ":",
         "/", "/", "a", "\n",
         "C", "o", "o", "r", "d", "i", "n", "a", "t", "e", "s", ":", " ", "4",
         ".", "5", ",", " ", "-", "7", "\n", "-", "-", "-", "\n",
         "*", "*", "B", "*", "*", "\n",
         "A", "d", "d", "r", "e", "s", "s", ":", " ", "2", ",", " ", "M", "\n",
         "W", "e", "b", "s", "i", "t", "e", ":", " ", "h", "t", "t", "p", ":",
         "/", "/", "b", "\n",
         "C", "o", "o", "r", "d", "i", "n", "a", "t", "e", "s", ":", " ", "1",
         ",", " ", "x", "\n", "-", "-", "-", "\n">>,
       <<"*", "*", "D", "*", "*", "\n",
         "A", "d", "d", "r", "e", "s", "s", ":", " ", "4", "\n",
         "W", "e", "b", "s", "i", "t", "e", ":", " ", "f", "t", "p", "\n",
         "C", "o", "o", "r", "d", "i", "n", "a", "t", "e", "s", ":", " ", "0",
         ",", "2", "\n", "-", "-", "-", "\n",
         "*", "*", "E", "*", "*", "\n", "P", "h", "o", "n", "e", ":", " ", "5",
         "\n">>,
       <<" ", "\n", "-", "-", "-", "\n">>,
       LongMarkdown(LongAnswerRecords) >>

\* the answers of at most two records
ShortAnswers == {1, 2, 3}

\* searchLeads once the backend has answered with Markdowns[r] at time n:
\* parseLeads(response.text), tabulated so that each text is parsed once
searchLeads ==
    [r \in 1..Len(Markdowns) |->
        [n \in 1..MaxSearches |-> parseLeads(Markdowns[r], n)]]

\* texts the user types into the search input
TypedQueries == {<<"a">>}

\* ExtractContacts answers
ScrapeResponses ==
    { [kind |-> "throw", data |-> None],
      [kind |-> "unparsable", data |-> None],
      [kind |-> "json", data |-> None],
      [kind |-> "json",
       data |-> Some([emails  |-> Some(<< <<"e">>, <<"e">> >>),
                      phones  |-> None,
                      socials |-> Some(<<>>)])] }

\* values of one key of a GeocodeBatch answer: null, or an object
GeocodeValues ==
    { None,
      Some([latitude  |-> JsString(<<"1", ".", "5">>),
            longitude |-> JsNumber(Num(7))]),
      Some([latitude  |-> JsNumber(Num(3)), longitude |-> JsString(<<"x">>)]) }

\* GeocodeBatch answers for a search whose parse step returned results: the
\* backend may answer for any of the ids it has seen or none
GeocodeResponses(results) ==
    LET ids == {results[k].id : k \in 1..Len(results)}
    IN  { [kind |-> "throw", data |-> << >>],
          [kind |-> "unparsable", data |-> << >>] }
        \cup { [kind |-> "json", data |-> d] :
                 d \in UNION { [keys -> GeocodeValues] : keys \in SUBSET ids } }

(***************************************************************************)
(* App.tsx: the state of the root component.                               *)
(***************************************************************************)
HISTORY_LIMIT == 20
PLACEHOLDER_TEXT ==
    <<"G", "e", "t", " ", "y", "o", "u", "r", " ", "n", "e", "x", "t", " ",
      "c", "l", "i", "e", "n", "t", ".", " ", "B", "y", " ", "D", "o", "u",
      "g", "l", "a", "s", " ", "P">>

VARIABLES
    leads,              \* useState<Business[]>
    isLoading,          \* useState(false)
    error,              \* useState<string | null>
    activeTab,          \* "current" or "history"
    searchQuery,        \* the value of the search input
    searchHistory,      \* useState<SearchHistoryItem[]>
    isScrapingAll,      \* useState(false)
    visibleLeadsCount,  \* useState(RESULTS_PER_PAGE)
    selectedBusinessId, \* useState<string | null>
    storage,            \* localStorage item 'leadFinderHistory'
    searches,           \* handleSearch invocations suspended at an await
    scrapes,            \* handleScrape invocations suspended at their await
    now,                \* Date.now(), one tick per parse
    started,            \* number of handleSearch invocations accepted
    coordinatesMap,     \* the Map the last geocodeAddresses call returned
    lastStep,           \* observer: the handler or continuation that ran last
    runTrace,           \* observer: "running" while a scrape-all run is in
                        \* flight and "finished" once it has ended, as long
                        \* as nothing but that run has acted since its click;
                        \* "again" after a further click in "finished"
    download,           \* the text of the leads.csv file last downloaded
    probe               \* observer: the last call of a service function or
                        \* helper made on its own, with argument and result

vars == <<leads, isLoading, error, activeTab, searchQuery, searchHistory,
          isScrapingAll, visibleLeadsCount, selectedBusinessId, storage,
          searches, scrapes, now, started, coordinatesMap, lastStep, runTrace,
          download, probe>>

RemoveAt(seq, k) == SubSeq(seq, 1, k - 1) \o SubSeq(seq, k + 1, Len(seq))

\* a string used as a condition: undefined and '' are falsy
truthyText(opt) == opt # None /\ opt[1] # <<>>

\* a log that earlier sessions left in localStorage: the n searches
\* "h01" .. "h<n>", most recent first
StoredQuery(k) == <<"h", DigitOf[(k \div 10) + 1], DigitOf[(k % 10) + 1]>>
StoredLog(n) == [k \in 1..n |-> [query |-> StoredQuery(k), resultCount |-> k % 3]]

\* no function has been called on its own
NoProbe == [fn |-> "none", arg |-> <<>>, calls |-> 0, out |-> <<>>]

\* the state after construction and the mount effect, which reads the stored
\* log; n is the length of the log that earlier sessions have stored
InitWith(lengths) ==
    /\ \E n \in lengths :
         /\ storage = (IF n = 0 THEN None ELSE Some(StoredLog(n)))
         /\ searchHistory = StoredLog(n)
    /\ leads = <<>>
    /\ isLoading = FALSE
    /\ error = None
    /\ activeTab = "current"
    /\ searchQuery = PLACEHOLDER_TEXT
    /\ isScrapingAll = FALSE
    /\ visibleLeadsCount = RESULTS_PER_PAGE
    /\ selectedBusinessId = None
    /\ searches = <<>>
    /\ scrapes = <<>>
    /\ now = 0
    /\ started = 0
    /\ coordinatesMap = << >>
    /\ lastStep = "init"
    /\ runTrace = "none"
    /\ download = None
    /\ probe = NoProbe

\* first use, or one earlier search in the stored log
Init == InitWith({0, 1})

(***************************************************************************)
(* App.tsx: the search orchestrator.                                       *)
(***************************************************************************)
\* updateSearchHistory without the write to localStorage
updateSearchHistoryUnsaved(newHistory) ==
    /\ searchHistory' = newHistory
    /\ storage' = storage

\* updateSearchHistory(newHistory)
updateSearchHistory(newHistory) ==
    /\ searchHistory' = newHistory
    /\ storage' = Some(newHistory)

\* updatedHistory without the filter on the query
updatedHistoryUnfiltered(history, query, resultCount) ==
    LET item == [query |-> query, resultCount |-> resultCount]
        all  == <<item>> \o history
    IN  SubSeq(all, 1, IF Len(all) < HISTORY_LIMIT THEN Len(all) ELSE HISTORY_LIMIT)

\* [newHistoryItem, ...searchHistory.filter(h => h.query !== query)].slice(0, 20)
\* An entry is its query and resultCount; its id and timestamp (Date.now())
\* are read by no handler.
updatedHistory(history, query, resultCount) ==
    LET item == [query |-> query, resultCount |-> resultCount]
        all  == <<item>> \o SelectSeq(history, LAMBDA h : h.query # query)
    IN  SubSeq(all, 1, IF Len(all) < HISTORY_LIMIT THEN Len(all) ELSE HISTORY_LIMIT)

\* handleSearch(query) up to its first await.  The callback is rebuilt when
\* searchHistory changes, so it holds the log of the render it was called from.
handleSearch(query) ==
    IF query = <<>> \/ query = PLACEHOLDER_TEXT
    THEN UNCHANGED <<leads, isLoading, error, visibleLeadsCount,
                     selectedBusinessId, searches, started>>
    ELSE /\ isLoading' = TRUE
         /\ error' = None
         /\ leads' = <<>>
         /\ selectedBusinessId' = None
         /\ visibleLeadsCount' = RESULTS_PER_PAGE
         /\ searches' = Append(searches,
                               [query |-> query, history |-> searchHistory,
                                phase |-> "find", results |-> <<>>,
                                request |-> <<>>])
         /\ started' = started + 1

\* toGeocode with no test of the coordinates: every record that has an
\* address is sent to the geocoder
toGeocodeEveryAddress(initialResults) ==
    LET missing == SelectSeq(initialResults,
                             LAMBDA lead : lead.address # <<>>)
    IN  [k \in 1..Len(missing) |->
            [id |-> missing[k].id, address |-> missing[k].address]]

\* the filter and map of step 2 of handleSearch
toGeocode(initialResults) ==
    LET missing == SelectSeq(initialResults,
                             LAMBDA lead : /\ lead.address # <<>>
                                           /\ \/ lead.latitude = None
                                              \/ lead.longitude = None)
    IN  [k \in 1..Len(missing) |->
            [id |-> missing[k].id, address |-> missing[k].address]]

\* mergeCoordinates that blanks the coordinates of the records the Map does
\* not have
mergeCoordinatesClearingOthers(initialResults, map) ==
    [k \in 1..Len(initialResults) |->
        IF initialResults[k].id \in DOMAIN map
        THEN [initialResults[k] EXCEPT
                !.latitude  = Some(map[initialResults[k].id].latitude),
                !.longitude = Some(map[initialResults[k].id].longitude)]
        ELSE [initialResults[k] EXCEPT !.latitude = None, !.longitude = None]]

\* step 4 of handleSearch: the merge of the Map into the parsed results
mergeCoordinates(initialResults, map) ==
    [k \in 1..Len(initialResults) |->
        IF initialResults[k].id \in DOMAIN map
        THEN [initialResults[k] EXCEPT
                !.latitude  = Some(map[initialResults[k].id].latitude),
                !.longitude = Some(map[initialResults[k].id].longitude)]
        ELSE initialResults[k]]

\* finishSearch that adds the records to those on display
finishSearchAppending(k, finalResults, resultCount) ==
    /\ leads' = leads \o finalResults
    /\ updateSearchHistory(updatedHistory(searches[k].history, searches[k].query,
                                          resultCount))
    /\ isLoading' = FALSE
    /\ searches' = RemoveAt(searches, k)

\* setLeads(...), step 5 and the finally block of handleSearch
finishSearch(k, finalResults, resultCount) ==
    /\ leads' = finalResults
    /\ updateSearchHistory(updatedHistory(searches[k].history, searches[k].query,
                                          resultCount))
    /\ isLoading' = FALSE
    /\ searches' = RemoveAt(searches, k)

\* SubmitSearch with no test of the query in handleSubmit or in handleSearch
SubmitSearchUnguarded ==
    /\ ~isLoading
    /\ searchQuery # PLACEHOLDER_TEXT
    /\ started < MaxSearches
    /\ isLoading' = TRUE
    /\ error' = None
    /\ leads' = <<>>
    /\ selectedBusinessId' = None
    /\ visibleLeadsCount' = RESULTS_PER_PAGE
    /\ searches' = Append(searches,
                          [query |-> searchQuery, history |-> searchHistory,
                           phase |-> "find", results |-> <<>>,
                           request |-> <<>>])
    /\ started' = started + 1
    /\ lastStep' = "submit"
    /\ runTrace' = "none"
    /\ UNCHANGED <<activeTab, searchQuery, searchHistory, isScrapingAll,
                   storage, scrapes, now, coordinatesMap,
                   download, probe>>

\* SearchBar.handleSubmit: the submit button is enabled, the form submits
SubmitSearch ==
    /\ ~isLoading
    /\ searchQuery # PLACEHOLDER_TEXT
    /\ started < MaxSearches
    /\ IF trim(searchQuery) # <<>>
       THEN handleSearch(searchQuery)
       ELSE UNCHANGED <<leads, isLoading, error, visibleLeadsCount,
                        selectedBusinessId, searches, started>>
    /\ lastStep' = "submit"
    /\ runTrace' = "none"
    /\ UNCHANGED <<activeTab, searchQuery, searchHistory, isScrapingAll,
                   storage, scrapes, now, coordinatesMap,
                   download, probe>>

\* handleRerunSearch(item.query), from the Rerun button of a history entry
RerunSearch(k) ==
    /\ activeTab = "history"
    /\ k \in 1..Len(searchHistory)
    /\ started < MaxSearches
    /\ activeTab' = "current"
    /\ searchQuery' = searchHistory[k].query
    /\ handleSearch(searchHistory[k].query)
    /\ lastStep' = "rerun"
    /\ runTrace' = "none"
    /\ UNCHANGED <<searchHistory, isScrapingAll, storage, scrapes, now,
                   coordinatesMap,
                   download, probe>>

\* the FindBusinesses call of search k resolves with Markdowns[r]: searchLeads
\* returns, and handleSearch runs to its next await or to its end
FindBusinessesReturn(k, r) ==
    /\ k \in 1..Len(searches)
    /\ searches[k].phase = "find"
    /\ now' = now + 1
    /\ LET initialResults == searchLeads[r][now + 1]
           request == toGeocode(initialResults)
       IN  IF Len(request) > 0
           THEN /\ searches' = [searches EXCEPT
                                  ![k] = [@ EXCEPT !.phase = "geocode",
                                                   !.results = initialResults,
                                                   !.request = request]]
                /\ UNCHANGED <<leads, isLoading, searchHistory, storage>>
           ELSE finishSearch(k, initialResults, Len(initialResults))
    /\ lastStep' = "findReturn"
    /\ runTrace' = "none"
    /\ UNCHANGED <<error, activeTab, searchQuery, isScrapingAll,
                   visibleLeadsCount, selectedBusinessId, scrapes, started,
                   coordinatesMap,
                   download, probe>>

\* the FindBusinesses call of search k rejects (or its text is undefined):
\* searchLeads throws, the catch and finally blocks of handleSearch run
FindBusinessesFail(k) ==
    /\ k \in 1..Len(searches)
    /\ searches[k].phase = "find"
    /\ error' = Some(FetchFailedMessage)
    /\ isLoading' = FALSE
    /\ searches' = RemoveAt(searches, k)
    /\ lastStep' = "findFail"
    /\ runTrace' = "none"
    /\ UNCHANGED <<leads, activeTab, searchQuery, searchHistory, isScrapingAll,
                   visibleLeadsCount, selectedBusinessId, storage, scrapes,
                   now, started, coordinatesMap,
                   download, probe>>

\* the GeocodeBatch call of search k is answered: geocodeAddresses returns,
\* handleSearch merges and finishes
GeocodeReturn(k, response) ==
    /\ k \in 1..Len(searches)
    /\ searches[k].phase = "geocode"
    /\ response \in GeocodeResponses(searches[k].results)
    /\ coordinatesMap' = geocodeAddresses(searches[k].request, response)
    /\ finishSearch(k, mergeCoordinates(searches[k].results, coordinatesMap'),
                    Len(searches[k].results))
    /\ lastStep' = IF response.kind = "json" THEN "geocodeReturn"
                   ELSE "geocodeFail"
    /\ runTrace' = "none"
    /\ UNCHANGED <<error, activeTab, searchQuery, isScrapingAll,
                   visibleLeadsCount, selectedBusinessId, scrapes, now, started,
                   download, probe>>

\* handleClearHistory, from the Clear History button
ClearHistory ==
    /\ activeTab = "history"
    /\ Len(searchHistory) > 0
    /\ updateSearchHistory(<<>>)
    /\ lastStep' = "clearHistory"
    /\ runTrace' = "none"
    /\ UNCHANGED <<leads, isLoading, error, activeTab, searchQuery,
                   isScrapingAll, visibleLeadsCount, selectedBusinessId,
                   searches, scrapes, now, started, coordinatesMap,
                   download, probe>>

\* setActiveTab, from the two tab buttons
SetActiveTab(tab) ==
    /\ tab \in {"current", "history"}
    /\ tab # activeTab
    /\ activeTab' = tab
    /\ lastStep' = "setActiveTab"
    /\ runTrace' = "none"
    /\ UNCHANGED <<leads, isLoading, error, searchQuery, searchHistory,
                   isScrapingAll, visibleLeadsCount, selectedBusinessId,
                   storage, searches, scrapes, now, started, coordinatesMap,
                   download, probe>>

\* the input handlers of SearchBar: onChange, handleFocus, handleBlur
SetQuery(q) ==
    /\ q # searchQuery
    /\ searchQuery' = q
    /\ lastStep' = "setQuery"
    /\ runTrace' = "none"
    /\ UNCHANGED <<leads, isLoading, error, activeTab, searchHistory,
                   isScrapingAll, visibleLeadsCount, selectedBusinessId,
                   storage, searches, scrapes, now, started, coordinatesMap,
                   download, probe>>

HandleChange(q) == q \in TypedQueries /\ SetQuery(q)

HandleFocus == searchQuery = PLACEHOLDER_TEXT /\ SetQuery(<<>>)

HandleBlur == trim(searchQuery) = <<>> /\ SetQuery(PLACEHOLDER_TEXT)

(***************************************************************************)
(* App.tsx: the scrape orchestrator.  A suspended handleScrape is a record *)
(* of scrapes: its arguments and, when handleScrapeAll awaits it, the      *)
(* frame of that loop (the leads array it iterates and the position).      *)
(***************************************************************************)
\* the three setLeads updaters of handleScrape
scrapeStarted(ls, businessId) ==
    [k \in 1..Len(ls) |->
        IF ls[k].id = businessId
        THEN [ls[k] EXCEPT !.isScraping = Some(TRUE), !.scrapeError = None]
        ELSE ls[k]]

\* scrapeSucceeded without the test of the id
scrapeSucceededEverywhere(ls, businessId, scrapedData) ==
    [k \in 1..Len(ls) |->
        [ls[k] EXCEPT !.isScraping = Some(FALSE),
                      !.scrapedData = Some(scrapedData)]]

scrapeSucceeded(ls, businessId, scrapedData) ==
    [k \in 1..Len(ls) |->
        IF ls[k].id = businessId
        THEN [ls[k] EXCEPT !.isScraping = Some(FALSE),
                           !.scrapedData = Some(scrapedData)]
        ELSE ls[k]]

scrapeFailed(ls, businessId, errorMessage) ==
    [k \in 1..Len(ls) |->
        IF ls[k].id = businessId
        THEN [ls[k] EXCEPT !.isScraping = Some(FALSE),
                           !.scrapeError = Some(errorMessage)]
        ELSE ls[k]]

\* the continuation of handleScrape after its await, for an answered call
handleScrapeResult(ls, task, response) ==
    LET result == scrapeContacts(task.url, response)
    IN  IF result.ok
        THEN scrapeSucceeded(ls, task.id, result.value)
        ELSE scrapeFailed(ls, task.id, result.message)

\* eligible without the test of scrapeError
eligibleDespiteError(lead) ==
    /\ truthyText(lead.website)
    /\ lead.scrapedData = None

\* the guard of the loop body of handleScrapeAll
eligible(lead) ==
    /\ truthyText(lead.website)
    /\ lead.scrapedData = None
    /\ ~truthyText(lead.scrapeError)

\* scrapeAllLoop with handleScrape not awaited: every record from position i
\* on that needs a call gets it at once
RECURSIVE scrapeAllLoopUnawaited(_, _, _)
scrapeAllLoopUnawaited(ls, snapshot, i) ==
    IF i > Len(snapshot)
    THEN [leads |-> ls, done |-> TRUE, call |-> <<>>]
    ELSE IF ~eligible(snapshot[i])
    THEN scrapeAllLoopUnawaited(ls, snapshot, i + 1)
    ELSE IF invalidUrl(snapshot[i].website[1])
    THEN scrapeAllLoopUnawaited(scrapeFailed(scrapeStarted(ls, snapshot[i].id),
                                             snapshot[i].id, InvalidUrlMessage),
                                snapshot, i + 1)
    ELSE LET out == scrapeAllLoopUnawaited(scrapeStarted(ls, snapshot[i].id),
                                           snapshot, i + 1)
         IN  [leads |-> out.leads,
              done  |-> FALSE,
              call  |-> <<[id |-> snapshot[i].id, url |-> snapshot[i].website[1],
                           all |-> TRUE, snapshot |-> snapshot, idx |-> i]>>
                        \o out.call]

\* the for loop of handleScrapeAll over snapshot from position i, run until
\* a handleScrape suspends on the backend or the loop ends.  A record whose
\* url scrapeContacts rejects is started and failed without suspending.
RECURSIVE scrapeAllLoop(_, _, _)
scrapeAllLoop(ls, snapshot, i) ==
    IF i > Len(snapshot)
    THEN [leads |-> ls, done |-> TRUE, call |-> <<>>]
    ELSE IF ~eligible(snapshot[i])
    THEN scrapeAllLoop(ls, snapshot, i + 1)
    ELSE IF invalidUrl(snapshot[i].website[1])
    THEN scrapeAllLoop(scrapeFailed(scrapeStarted(ls, snapshot[i].id),
                                    snapshot[i].id, InvalidUrlMessage),
                       snapshot, i + 1)
    ELSE [leads |-> scrapeStarted(ls, snapshot[i].id),
          done  |-> FALSE,
          call  |-> <<[id |-> snapshot[i].id, url |-> snapshot[i].website[1],
                       all |-> TRUE, snapshot |-> snapshot, idx |-> i]>>]

\* the Scrape button of the card of leads[i]: handleScrapeClick, handleScrape
ScrapeClick(i) ==
    /\ activeTab = "current"
    /\ i \in 1..Len(leads)
    /\ i <= visibleLeadsCount
    /\ truthyText(leads[i].website)
    /\ leads[i].isScraping # Some(TRUE)
    /\ Len(scrapes) < MaxPending
    /\ LET id  == leads[i].id
           url == leads[i].website[1]
       IN  IF invalidUrl(url)
           THEN /\ leads' = scrapeFailed(scrapeStarted(leads, id), id,
                                         InvalidUrlMessage)
                /\ UNCHANGED scrapes
           ELSE /\ leads' = scrapeStarted(leads, id)
                /\ scrapes' = Append(scrapes,
                                     [id |-> id, url |-> url, all |-> FALSE,
                                      snapshot |-> <<>>, idx |-> 0])
    /\ lastStep' = "scrapeClick"
    /\ runTrace' = "none"
    /\ UNCHANGED <<isLoading, error, activeTab, searchQuery, searchHistory,
                   isScrapingAll, visibleLeadsCount, selectedBusinessId,
                   storage, searches, now, started, coordinatesMap,
                   download, probe>>

\* ScrapeAllClick with the button enabled during a run
ScrapeAllClickEnabled ==
    /\ activeTab = "current"
    /\ Len(leads) > 0
    /\ Len(scrapes) < MaxPending
    /\ LET out == scrapeAllLoop(leads, leads, 1)
       IN  /\ leads' = out.leads
           /\ scrapes' = scrapes \o out.call
           /\ isScrapingAll' = ~out.done
           /\ runTrace' = IF ~out.done THEN "running"
                          ELSE IF runTrace \in {"finished", "again"} THEN "again"
                          ELSE "finished"
    /\ lastStep' = "scrapeAll"
    /\ UNCHANGED <<isLoading, error, activeTab, searchQuery, searchHistory,
                   visibleLeadsCount, selectedBusinessId, storage, searches,
                   now, started, coordinatesMap,
                   download, probe>>

\* the Scrape All Websites button: handleScrapeAll up to its first suspension
ScrapeAllClick ==
    /\ activeTab = "current"
    /\ Len(leads) > 0
    /\ ~isScrapingAll
    /\ Len(scrapes) < MaxPending
    /\ LET out == scrapeAllLoop(leads, leads, 1)
       IN  /\ leads' = out.leads
           /\ scrapes' = scrapes \o out.call
           /\ isScrapingAll' = ~out.done
           /\ runTrace' = IF ~out.done THEN "running"
                          ELSE IF runTrace \in {"finished", "again"} THEN "again"
                          ELSE "finished"
    /\ lastStep' = "scrapeAll"
    /\ UNCHANGED <<isLoading, error, activeTab, searchQuery, searchHistory,
                   visibleLeadsCount, selectedBusinessId, storage, searches,
                   now, started, coordinatesMap,
                   download, probe>>

\* ScrapeReturn with the failure of the awaited handleScrape thrown out of
\* the loop of handleScrapeAll
ScrapeReturnRethrowing(k, response) ==
    /\ k \in 1..Len(scrapes)
    /\ response \in ScrapeResponses
    /\ LET task == scrapes[k]
           ok   == scrapeContacts(task.url, response).ok
           ls   == handleScrapeResult(leads, task, response)
           rest == RemoveAt(scrapes, k)
           out  == IF ok THEN scrapeAllLoop(ls, task.snapshot, task.idx + 1)
                   ELSE [leads |-> ls, done |-> FALSE, call |-> <<>>]
       IN  IF task.all
           THEN /\ leads' = out.leads
                /\ scrapes' = rest \o out.call
                /\ isScrapingAll' = IF out.done THEN FALSE ELSE isScrapingAll
                /\ runTrace' = IF runTrace # "running" THEN "none"
                               ELSE IF out.done THEN "finished" ELSE "running"
                /\ lastStep' = IF ok THEN "scrapeAllReturn" ELSE "scrapeAllFail"
           ELSE /\ leads' = ls
                /\ scrapes' = rest
                /\ runTrace' = "none"
                /\ lastStep' = IF ok THEN "scrapeReturn" ELSE "scrapeFail"
                /\ UNCHANGED isScrapingAll
    /\ UNCHANGED <<isLoading, error, activeTab, searchQuery, searchHistory,
                   visibleLeadsCount, selectedBusinessId, storage, searches,
                   now, started, coordinatesMap,
                   download, probe>>

\* the ExtractContacts call of scrapes[k] is answered: handleScrape finishes
\* and, when handleScrapeAll awaits it, the loop goes on
ScrapeReturn(k, response) ==
    /\ k \in 1..Len(scrapes)
    /\ response \in ScrapeResponses
    /\ LET task == scrapes[k]
           ls   == handleScrapeResult(leads, task, response)
           rest == RemoveAt(scrapes, k)
           out  == scrapeAllLoop(ls, task.snapshot, task.idx + 1)
       IN  IF task.all
           THEN /\ leads' = out.leads
                /\ scrapes' = rest \o out.call
                /\ isScrapingAll' = IF out.done THEN FALSE ELSE isScrapingAll
                /\ runTrace' = IF runTrace # "running" THEN "none"
                               ELSE IF out.done THEN "finished" ELSE "running"
                /\ lastStep' = IF scrapeContacts(task.url, response).ok
                               THEN "scrapeAllReturn" ELSE "scrapeAllFail"
           ELSE /\ leads' = ls
                /\ scrapes' = rest
                /\ runTrace' = "none"
                /\ lastStep' = IF scrapeContacts(task.url, response).ok
                               THEN "scrapeReturn" ELSE "scrapeFail"
                /\ UNCHANGED isScrapingAll
    /\ UNCHANGED <<isLoading, error, activeTab, searchQuery, searchHistory,
                   visibleLeadsCount, selectedBusinessId, storage, searches,
                   now, started, coordinatesMap,
                   download, probe>>

(***************************************************************************)
(* App.tsx: selection and pagination.  A selection event comes from a card *)
(* of the list, which shows the records of the window, or from a marker of *)
(* the map, which shows every record that has coordinates.  The markers    *)
(* are rebuilt after every render, so their handler is that of the state   *)
(* at the click.                                                           *)
(***************************************************************************)
\* leads.findIndex(lead => lead.id === id): 0-based, -1 when there is none
findIndex(ls, id) ==
    LET at == {k \in 1..Len(ls) : ls[k].id = id}
    IN  IF at = {} THEN -1
        ELSE (CHOOSE k \in at : \A j \in at : k <= j) - 1

\* expandedWindow that takes the index itself for the new count
expandedWindowToIndex(selectedIndex, count) ==
    IF selectedIndex >= count THEN selectedIndex ELSE count

\* the auto-scroll of handleSelectBusiness: the count of visible records
\* after a selection of the record at selectedIndex
expandedWindow(selectedIndex, count) ==
    IF selectedIndex >= count THEN selectedIndex + 1 ELSE count

\* handleSelectBusiness(id)
handleSelectBusiness(id) ==
    /\ selectedBusinessId' = (IF selectedBusinessId = Some(id) THEN None
                              ELSE Some(id))
    /\ visibleLeadsCount' = expandedWindow(findIndex(leads, id),
                                           visibleLeadsCount)

\* a click on the card of leads[i]: handleCardClick, onSelect
SelectCard(i) ==
    /\ activeTab = "current"
    /\ i \in 1..Len(leads)
    /\ i <= visibleLeadsCount
    /\ handleSelectBusiness(leads[i].id)
    /\ lastStep' = "selectCard"
    /\ runTrace' = "none"
    /\ UNCHANGED <<leads, isLoading, error, activeTab, searchQuery,
                   searchHistory, isScrapingAll, storage, searches, scrapes,
                   now, started, coordinatesMap, download, probe>>

\* a click on the marker of leads[i]: onMarkerClick
MarkerClick(i) ==
    /\ activeTab = "current"
    /\ i \in 1..Len(leads)
    /\ leads[i].latitude # None /\ leads[i].longitude # None
    /\ handleSelectBusiness(leads[i].id)
    /\ lastStep' = "markerClick"
    /\ runTrace' = "none"
    /\ UNCHANGED <<leads, isLoading, error, activeTab, searchQuery,
                   searchHistory, isScrapingAll, storage, searches, scrapes,
                   now, started, coordinatesMap, download, probe>>

\* the Load More button: handleLoadMore
LoadMore ==
    /\ activeTab = "current"
    /\ visibleLeadsCount < Len(leads)
    /\ visibleLeadsCount' = visibleLeadsCount + RESULTS_PER_PAGE
    /\ lastStep' = "loadMore"
    /\ runTrace' = "none"
    /\ UNCHANGED <<leads, isLoading, error, activeTab, searchQuery,
                   searchHistory, isScrapingAll, selectedBusinessId, storage,
                   searches, scrapes, now, started, coordinatesMap,
                   download, probe>>

(***************************************************************************)
(* App.tsx: handleExportAll.  A cell is a JavaScript value: undefined, a   *)
(* number or a string; the file is the text handed to the Blob.            *)
(***************************************************************************)
\* Array.prototype.join
RECURSIVE join(_, _)
join(parts, sep) ==
    IF parts = <<>> THEN <<>>
    ELSE IF Len(parts) = 1 THEN parts[1]
    ELSE parts[1] \o sep \o join(Tail(parts), sep)

\* the decimal digits of a natural number
RECURSIVE digitsOf(_)
digitsOf(n) ==
    IF n < 10 THEN <<DigitOf[n + 1]>>
    ELSE digitsOf(n \div 10) \o <<DigitOf[(n % 10) + 1]>>

\* Number.prototype.toString for the decimal m * 10^(-e)
numberToString(x) ==
    IF x.nan THEN <<"N", "a", "N">>
    ELSE LET a      == IF x.m < 0 THEN -x.m ELSE x.m
             ds     == digitsOf(a)
             padded == IF Len(ds) <= x.e
                       THEN [k \in 1..(x.e - Len(ds) + 1) |-> "0"] \o ds
                       ELSE ds
             whole  == SubSeq(padded, 1, Len(padded) - x.e)
             frac   == SubSeq(padded, Len(padded) - x.e + 1, Len(padded))
         IN  (IF x.m < 0 THEN <<"-">> ELSE <<>>) \o whole
                \o (IF x.e > 0 THEN <<".">> \o frac ELSE <<>>)

\* String(cellData || '')
cellString(cellData) ==
    IF ~truthy(cellData) THEN <<>>
    ELSE IF cellData.t = "number" THEN numberToString(cellData.n)
    ELSE cellData.s

\* FormulaChars without the at sign
FormulaCharsWithoutAt == {"=", "+", "-"}

\* the characters that start a spreadsheet formula
FormulaChars == {"=", "+", "-", "@"}

\* doubleQuotes that leaves the text as it is
doubleQuotesKept(s) == s

\* stringData.replace(/"/g, '""')
RECURSIVE doubleQuotes(_)
doubleQuotes(s) ==
    IF s = <<>> THEN <<>>
    ELSE (IF Head(s) = "\"" THEN <<"\"", "\"">> ELSE <<Head(s)>>)
            \o doubleQuotes(Tail(s))

escapeCsvCell(cellData) ==
    LET text       == cellString(cellData)
        stringData == IF text # <<>> /\ text[1] \in FormulaChars
                      THEN <<"'">> \o text
                      ELSE text
    IN  IF includes(stringData, Comma)
        THEN <<"\"">> \o doubleQuotes(stringData) \o <<"\"">>
        ELSE stringData

\* a field of a record as a cell: an optional string, an optional number
textCell(opt) == IF opt = None THEN Undefined ELSE JsString(opt[1])
numberCell(opt) == IF opt = None THEN Undefined ELSE JsNumber(opt[1])

\* lead.scrapedData?.emails.join('; ') || ''
joinedCell(lead, field) ==
    IF lead.scrapedData = None THEN JsString(<<>>)
    ELSE JsString(join(lead.scrapedData[1][field], <<";", " ">>))

CsvHeaders ==
    << <<"N", "a", "m", "e">>,
       <<"A", "d", "d", "r", "e", "s", "s">>,
       <<"T", "y", "p", "e">>,
       <<"P", "h", "o", "n", "e">>,
       <<"R", "a", "t", "i", "n", "g">>,
       <<"R", "e", "v", "i", "e", "w", "s">>,
       <<"W", "e", "b", "s", "i", "t", "e">>,
       <<"S", "c", "r", "a", "p", "e", "d", " ", "E", "m", "a", "i", "l", "s">>,
       <<"S", "c", "r", "a", "p", "e", "d", " ", "P", "h", "o", "n", "e", "s">>,
       <<"S", "c", "r", "a", "p", "e", "d", " ", "S", "o", "c", "i", "a", "l",
         "s">> >>

\* the cells of the row of one record, before they are joined
csvCells(lead) ==
    << escapeCsvCell(JsString(lead.name)),
       escapeCsvCell(JsString(lead.address)),
       escapeCsvCell(JsString(lead.type)),
       escapeCsvCell(textCell(lead.phone)),
       escapeCsvCell(numberCell(lead.rating)),
       escapeCsvCell(numberCell(lead.reviews)),
       escapeCsvCell(textCell(lead.website)),
       escapeCsvCell(joinedCell(lead, "emails")),
       escapeCsvCell(joinedCell(lead, "phones")),
       escapeCsvCell(joinedCell(lead, "socials")) >>

csvRows(ls) == [k \in 1..Len(ls) |-> join(csvCells(ls[k]), Comma)]

csvContent(ls) == join(<<join(CsvHeaders, Comma)>> \o csvRows(ls), NewLine)

\* ExportAll without the test of leads.length
ExportAllUnguarded ==
    /\ lastStep' = (IF Len(leads) = 0 THEN "exportEmpty" ELSE "export")
    /\ download' = Some(csvContent(leads))
    /\ runTrace' = "none"
    /\ UNCHANGED <<leads, isLoading, error, activeTab, searchQuery,
                   searchHistory, isScrapingAll, visibleLeadsCount,
                   selectedBusinessId, storage, searches, scrapes, now,
                   started, coordinatesMap, probe>>

\* the Export All button of the header: handleExportAll.  On an empty result
\* set it shows the alert and returns.
ExportAll ==
    /\ IF Len(leads) = 0
       THEN /\ lastStep' = "exportEmpty"
            /\ UNCHANGED download
       ELSE /\ lastStep' = "export"
            /\ download' = Some(csvContent(leads))
    /\ runTrace' = "none"
    /\ UNCHANGED <<leads, isLoading, error, activeTab, searchQuery,
                   searchHistory, isScrapingAll, visibleLeadsCount,
                   selectedBusinessId, storage, searches, scrapes, now,
                   started, coordinatesMap, probe>>

(***************************************************************************)
(* The service functions and helpers called on their own, on inputs drawn  *)
(* from bounded sets, one call in a behaviour.  probe records the         *)
(* function, its argument, the number of backend calls it issued and its   *)
(* result.                                                                 *)
(***************************************************************************)
\* segments per markdown text and characters per cell value
MaxSegments == 3
MaxCellLen == 3

\* segments of a FindBusinesses answer, each with the name it carries and
\* whether it has an address line with a value, and whether it is blank:
\*   "**A**\nAddress: 1\nPhone: 5\n"      "**B**\nPhone: 5\n"
\*   "**C**\nAddress:  \nType: t\n"       "****\nAddress: 3\n"      " \n"
ParserSegments ==
    { [text |-> <<"*", "*", "A", "*", "*", "\n", "A", "d", "d", "r", "e",
                  "s", "s", ":", " ", "1", "\n", "P", "h", "o", "n", "e",
                  ":", " ", "5", "\n">>,
       name |-> <<"A">>, address |-> TRUE, blank |-> FALSE],
      [text |-> <<"*", "*", "B", "*", "*", "\n", "P", "h", "o", "n", "e",
                  ":", " ", "5", "\n">>,
       name |-> <<"B">>, address |-> FALSE, blank |-> FALSE],
      [text |-> <<"*", "*", "C", "*", "*", "\n", "A", "d", "d", "r", "e",
                  "s", "s", ":", " ", " ", "\n", "T", "y", "p", "e", ":",
                  " ", "t", "\n">>,
       name |-> <<"C">>, address |-> FALSE, blank |-> FALSE],
      [text |-> <<"*", "*", "*", "*", "\n", "A", "d", "d", "r", "e", "s",
                  "s", ":", " ", "3", "\n">>,
       name |-> <<>>, address |-> TRUE, blank |-> FALSE],
      [text |-> <<" ", "\n">>,
       name |-> <<>>, address |-> FALSE, blank |-> TRUE] }

\* the answers made of up to MaxSegments segments
ParserInputs == UNION {[1..n -> ParserSegments] : n \in 0..MaxSegments}

\* the text of an answer: its segments, each followed by the delimiter line
markdownOf(segments) ==
    join([k \in 1..Len(segments) |-> segments[k].text \o Delimiter \o NewLine],
         <<>>)

\* parseLeads(markdown) on an answer of the backend
ProbeParse(segments) ==
    /\ probe = NoProbe
    /\ segments \in ParserInputs
    /\ probe' = [fn |-> "parseLeads", arg |-> segments, calls |-> 0,
                 out |-> parseLeads(markdownOf(segments), 1)]
    /\ lastStep' = "probe"
    /\ UNCHANGED <<leads, isLoading, error, activeTab, searchQuery,
                   searchHistory, isScrapingAll, visibleLeadsCount,
                   selectedBusinessId, storage, searches, scrapes, now,
                   started, coordinatesMap, runTrace, download>>

\* the generateContent calls of geocodeAddresses: none on an empty request
geocodeCalls(businesses) == IF Len(businesses) = 0 THEN 0 ELSE 1

\* requests to geocodeAddresses and the ids of the records asked for
ProbeIds == {<<1, 0>>, <<1, 1>>}
ProbeRequests ==
    { <<>>,
      <<[id |-> <<1, 0>>, address |-> <<"1">>]>>,
      <<[id |-> <<1, 0>>, address |-> <<"1">>],
        [id |-> <<1, 1>>, address |-> <<"2">>]>> }

\* values of one key of a GeocodeBatch answer, with coordinates that are 0
ProbeGeocodeValues ==
    GeocodeValues
        \cup { Some([latitude  |-> JsNumber(Num(0)),
                     longitude |-> JsNumber(Num(2))]),
               Some([latitude  |-> JsString(<<"0">>),
                     longitude |-> JsString(<<"0">>)]),
               Some([latitude  |-> JsNumber(Num(5)), longitude |-> Undefined]) }

ProbeGeocodeResponses ==
    { [kind |-> "throw", data |-> << >>],
      [kind |-> "unparsable", data |-> << >>] }
        \cup { [kind |-> "json", data |-> d] :
                 d \in UNION { [keys -> ProbeGeocodeValues] :
                                 keys \in SUBSET ProbeIds } }

\* geocodeAddresses(businesses) with the backend answering response
ProbeGeocode(businesses, response) ==
    /\ probe = NoProbe
    /\ businesses \in ProbeRequests
    /\ response \in ProbeGeocodeResponses
    /\ probe' = [fn |-> "geocodeAddresses",
                 arg |-> [businesses |-> businesses, response |-> response],
                 calls |-> geocodeCalls(businesses),
                 out |-> geocodeAddresses(businesses, response)]
    /\ lastStep' = "probe"
    /\ UNCHANGED <<leads, isLoading, error, activeTab, searchQuery,
                   searchHistory, isScrapingAll, visibleLeadsCount,
                   selectedBusinessId, storage, searches, scrapes, now,
                   started, coordinatesMap, runTrace, download>>

\* the generateContent calls of scrapeContacts: none for a rejected url
scrapeCalls(websiteUrl) == IF invalidUrl(websiteUrl) THEN 0 ELSE 1

\* urls handed to scrapeContacts: empty, with another scheme, a bare host
\* name, with the schemes http and https, and a host name that starts with
\* the letters http
ProbeUrls ==
    { <<>>,
      <<"f", "t", "p", ":", "/", "/", "a">>,
      <<"a", ".", "c", "o", "m">>,
      <<"h", "t", "t", "p", ":", "/", "/", "a">>,
      <<"h", "t", "t", "p", "s", ":", "/", "/", "a">>,
      <<"h", "t", "t", "p", "x", ".", "o", "r", "g">> }

\* scrapeContacts(websiteUrl) with the backend answering response
ProbeScrape(websiteUrl, response) ==
    /\ probe = NoProbe
    /\ websiteUrl \in ProbeUrls
    /\ response \in ScrapeResponses
    /\ probe' = [fn |-> "scrapeContacts",
                 arg |-> [websiteUrl |-> websiteUrl, response |-> response],
                 calls |-> scrapeCalls(websiteUrl),
                 out |-> IF invalidUrl(websiteUrl)
                         THEN [ok |-> FALSE, message |-> InvalidUrlMessage]
                         ELSE scrapeContacts(websiteUrl, response)]
    /\ lastStep' = "probe"
    /\ UNCHANGED <<leads, isLoading, error, activeTab, searchQuery,
                   searchHistory, isScrapingAll, visibleLeadsCount,
                   selectedBusinessId, storage, searches, scrapes, now,
                   started, coordinatesMap, runTrace, download>>

\* the text of the parsing scenario: one segment of three lines and the
\* delimiter
\*   "**Acme Plumbing**\n- Address: 1 Main St, Springfield\n- Phone: 555-1111\n---"
ScenarioMarkdown ==
    <<"*", "*", "A", "c", "m", "e", " ", "P", "l", "u", "m", "b", "i", "n",
      "g", "*", "*", "\n", "-", " ", "A", "d", "d", "r", "e", "s", "s", ":",
      " ", "1", " ", "M", "a", "i", "n", " ", "S", "t", ",", " ", "S", "p",
      "r", "i", "n", "g", "f", "i", "e", "l", "d", "\n", "-", " ", "P", "h",
      "o", "n", "e", ":", " ", "5", "5", "5", "-", "1", "1", "1", "1", "\n",
      "-", "-", "-">>

\* the scenario, also followed by a line break and by a second, blank segment
ScenarioTexts ==
    { ScenarioMarkdown,
      ScenarioMarkdown \o NewLine,
      ScenarioMarkdown \o <<"\n", " ", "\n">> \o Delimiter }

\* parseLeads(markdown) on a text of the scenario
ProbeScenario(markdown) ==
    /\ probe = NoProbe
    /\ markdown \in ScenarioTexts
    /\ probe' = [fn |-> "parseScenario", arg |-> markdown, calls |-> 0,
                 out |-> parseLeads(markdown, 1)]
    /\ lastStep' = "probe"
    /\ UNCHANGED <<leads, isLoading, error, activeTab, searchQuery,
                   searchHistory, isScrapingAll, visibleLeadsCount,
                   selectedBusinessId, storage, searches, scrapes, now,
                   started, coordinatesMap, runTrace, download>>

\* the values JSON.parse returns for the texts kept in localStorage: null, a
\* number, a string, an object, or an array of elements that are history
\* entries or not
JsonNull == [t |-> "null", elems |-> <<>>]
JsonNumber == [t |-> "number", elems |-> <<>>]
JsonString == [t |-> "string", elems |-> <<>>]
JsonObject == [t |-> "object", elems |-> <<>>]
JsonArray(elems) == [t |-> "array", elems |-> elems]

\* what localStorage.getItem('leadFinderHistory') meets at startup: a read
\* that throws, no item, the empty text, a text that is not JSON, or a JSON
\* text with the value it parses to
StoredItems ==
    { [kind |-> "denied", value |-> JsonNull],
      [kind |-> "absent", value |-> JsonNull],
      [kind |-> "empty", value |-> JsonNull],
      [kind |-> "unparsable", value |-> JsonNull],
      [kind |-> "json", value |-> JsonNull],
      [kind |-> "json", value |-> JsonNumber],
      [kind |-> "json", value |-> JsonString],
      [kind |-> "json", value |-> JsonObject],
      [kind |-> "json", value |-> JsonArray(<<>>)],
      [kind |-> "json", value |-> JsonArray(<<"entry">>)],
      [kind |-> "json", value |-> JsonArray(<<"entry", "entry">>)],
      [kind |-> "json", value |-> JsonArray(<<"other">>)],
      [kind |-> "json", value |-> JsonArray(<<"entry", "other">>)] }

\* the history state after the mount effect: useState([]) when nothing is
\* set, setSearchHistory(JSON.parse(storedHistory)) for a text that parses,
\* setSearchHistory([]) in the catch block
mountedHistory(item) ==
    IF item.kind \in {"absent", "empty"} THEN JsonArray(<<>>)
    ELSE IF item.kind \in {"denied", "unparsable"} THEN JsonArray(<<>>)
    ELSE item.value

\* the mount effect of App on a stored item
ProbeMount(item) ==
    /\ probe = NoProbe
    /\ item \in StoredItems
    /\ probe' = [fn |-> "mount", arg |-> item, calls |-> 0,
                 out |-> mountedHistory(item)]
    /\ lastStep' = "probe"
    /\ UNCHANGED <<leads, isLoading, error, activeTab, searchQuery,
                   searchHistory, isScrapingAll, visibleLeadsCount,
                   selectedBusinessId, storage, searches, scrapes, now,
                   started, coordinatesMap, runTrace, download>>

\* cell values handed to escapeCsvCell: an absent field, the numbers 0, 4.5
\* and -7, and the texts of up to MaxCellLen characters of CellAlphabet
CellAlphabet == {"=", "+", "-", "@", ",", "\"", "a"}
ProbeCells ==
    {Undefined, JsNumber(Num(0)), JsNumber(Normalise(45, 1)), JsNumber(Num(-7))}
        \cup {JsString(text) :
                text \in UNION {[1..n -> CellAlphabet] : n \in 0..MaxCellLen}}

\* escapeCsvCell(cellData)
ProbeEscape(cellData) ==
    /\ probe = NoProbe
    /\ cellData \in ProbeCells
    /\ probe' = [fn |-> "escapeCsvCell", arg |-> cellData, calls |-> 0,
                 out |-> escapeCsvCell(cellData)]
    /\ lastStep' = "probe"
    /\ UNCHANGED <<leads, isLoading, error, activeTab, searchQuery,
                   searchHistory, isScrapingAll, visibleLeadsCount,
                   selectedBusinessId, storage, searches, scrapes, now,
                   started, coordinatesMap, runTrace, download>>

(***************************************************************************)
(* The specifications.                                                     *)
(*                                                                         *)
(* Spec: the search orchestrator with every control that starts a search   *)
(* or changes the history.  SpecScrape: the scrape orchestrator over the   *)
(* result sets that searches from the form produce.  SpecHistory: the      *)
(* search orchestrator started on a history log that earlier sessions left *)
(* in localStorage.  SpecExport, SpecSelect and SpecReplace: the export,   *)
(* the selection with its pagination window, and reruns that overlap with  *)
(* scrapes.  SpecGeocode: the searches alone, with every answer of the     *)
(* geocoder.  SpecProbe: the service functions and helpers on their own.   *)
(***************************************************************************)
Next ==
    \/ SubmitSearch
    \/ \E k \in 1..Len(searchHistory) : RerunSearch(k)
    \/ \E k \in 1..Len(searches), r \in ShortAnswers :
         FindBusinessesReturn(k, r)
    \/ \E k \in 1..Len(searches) : FindBusinessesFail(k)
    \/ \E k \in 1..Len(searches) :
         \E response \in GeocodeResponses(searches[k].results) :
            GeocodeReturn(k, response)
    \/ ClearHistory
    \/ \E tab \in {"current", "history"} : SetActiveTab(tab)
    \/ \E q \in TypedQueries : HandleChange(q)
    \/ HandleFocus
    \/ HandleBlur

Spec == Init /\ [][Next]_vars

\* the GeocodeBatch answers of SpecScrape and SpecExport: coordinates play
\* no part in scraping or in the export, so the call only throws there
ScrapeGeocodeResponses(results) ==
    {response \in GeocodeResponses(results) : response.kind = "throw"}

NextScrape ==
    \/ \E q \in TypedQueries : HandleChange(q)
    \/ SubmitSearch
    \/ \E k \in 1..Len(searches), r \in ShortAnswers :
         FindBusinessesReturn(k, r)
    \/ \E k \in 1..Len(searches) : FindBusinessesFail(k)
    \/ \E k \in 1..Len(searches) :
         \E response \in ScrapeGeocodeResponses(searches[k].results) :
            GeocodeReturn(k, response)
    \/ \E i \in 1..Len(leads) : ScrapeClick(i)
    \/ ScrapeAllClick
    \/ \E k \in 1..Len(scrapes), response \in ScrapeResponses :
         ScrapeReturn(k, response)

SpecScrape == InitWith({0}) /\ [][NextScrape]_vars

\* every ExtractContacts call that handleScrapeAll awaits is answered
ScrapeAllReturn ==
    \E k \in 1..Len(scrapes), response \in ScrapeResponses :
        scrapes[k].all /\ ScrapeReturn(k, response)

SpecScrapeFair == SpecScrape /\ WF_vars(ScrapeAllReturn)

\* SpecHistory starts on an empty, an almost full or a full log
InitHistory == InitWith({0, HISTORY_LIMIT - 1, HISTORY_LIMIT})

\* the history entries whose Rerun button the user presses: first and last
RerunPositions == {1, HISTORY_LIMIT}

\* the FindBusinesses answers of SpecHistory: those whose records all carry
\* coordinates, so that handleSearch finishes without the geocoder
HistoryMarkdowns == {2, 3}

NextHistory ==
    \/ \E q \in TypedQueries : HandleChange(q)
    \/ SubmitSearch
    \/ \E k \in RerunPositions : RerunSearch(k)
    \/ \E k \in 1..Len(searches), r \in HistoryMarkdowns :
         FindBusinessesReturn(k, r)
    \/ \E k \in 1..Len(searches) : FindBusinessesFail(k)
    \/ ClearHistory
    \/ \E tab \in {"current", "history"} : SetActiveTab(tab)

SpecHistory == InitHistory /\ [][NextHistory]_vars

\* SpecExport: the export of the result sets that searches from the form
\* and per-record scrapes produce
NextExport ==
    \/ \E q \in TypedQueries : HandleChange(q)
    \/ SubmitSearch
    \/ \E k \in 1..Len(searches), r \in ShortAnswers :
         FindBusinessesReturn(k, r)
    \/ \E k \in 1..Len(searches) : FindBusinessesFail(k)
    \/ \E k \in 1..Len(searches) :
         \E response \in ScrapeGeocodeResponses(searches[k].results) :
            GeocodeReturn(k, response)
    \/ \E i \in 1..Len(leads) : ScrapeClick(i)
    \/ \E k \in 1..Len(scrapes), response \in ScrapeResponses :
         ScrapeReturn(k, response)
    \/ ExportAll

SpecExport == InitWith({0}) /\ [][NextExport]_vars

\* the FindBusinesses answers of SpecSelect: the one of a single record and
\* the long one
SelectAnswers == {2, 4}

\* SpecSelect: selection and pagination over the result sets that searches
\* from the form produce
NextSelect ==
    \/ \E q \in TypedQueries : HandleChange(q)
    \/ SubmitSearch
    \/ \E k \in 1..Len(searches), r \in SelectAnswers :
         FindBusinessesReturn(k, r)
    \/ \E k \in 1..Len(searches) : FindBusinessesFail(k)
    \/ \E i \in 1..Len(leads) : SelectCard(i)
    \/ \E i \in 1..Len(leads) : MarkerClick(i)
    \/ LoadMore

SpecSelect == InitWith({0}) /\ [][NextSelect]_vars

\* the FindBusinesses answers of SpecReplace: those with records
ReplaceAnswers == {1, 2}

\* SpecReplace: searches rerun from a stored history entry, which the Rerun
\* button starts whether or not a search is in flight, with per-record
\* scrapes of the result sets they produce
NextReplace ==
    \/ \E tab \in {"current", "history"} : SetActiveTab(tab)
    \/ \E k \in 1..Len(searchHistory) : RerunSearch(k)
    \/ \E k \in 1..Len(searches), r \in ReplaceAnswers :
         FindBusinessesReturn(k, r)
    \/ \E k \in 1..Len(searches) :
         \E response \in ScrapeGeocodeResponses(searches[k].results) :
            GeocodeReturn(k, response)
    \/ \E i \in 1..Len(leads) : ScrapeClick(i)
    \/ \E k \in 1..Len(scrapes), response \in ScrapeResponses :
         ScrapeReturn(k, response)

SpecReplace == InitWith({1}) /\ [][NextReplace]_vars

\* SpecReselect: searches rerun from a stored history entry, which the Rerun
\* button starts whether or not a search is in flight, with selections from
\* the cards and the markers of the result sets they produce
NextReselect ==
    \/ \E tab \in {"current", "history"} : SetActiveTab(tab)
    \/ \E k \in 1..Len(searchHistory) : RerunSearch(k)
    \/ \E k \in 1..Len(searches), r \in ReplaceAnswers :
         FindBusinessesReturn(k, r)
    \/ \E k \in 1..Len(searches) :
         \E response \in ScrapeGeocodeResponses(searches[k].results) :
            GeocodeReturn(k, response)
    \/ \E i \in 1..Len(leads) : SelectCard(i)
    \/ \E i \in 1..Len(leads) : MarkerClick(i)

SpecReselect == InitWith({1}) /\ [][NextReselect]_vars

\* SpecGeocode: searches from the form and from the Rerun button with every
\* answer of the geocoder
NextGeocode ==
    \/ \E q \in TypedQueries : HandleChange(q)
    \/ SubmitSearch
    \/ \E tab \in {"current", "history"} : SetActiveTab(tab)
    \/ \E k \in 1..Len(searchHistory) : RerunSearch(k)
    \/ \E k \in 1..Len(searches), r \in ShortAnswers :
         FindBusinessesReturn(k, r)
    \/ \E k \in 1..Len(searches) :
         \E response \in GeocodeResponses(searches[k].results) :
            GeocodeReturn(k, response)

SpecGeocode == Init /\ [][NextGeocode]_vars

\* SpecProbe: the functions called on their own
\* the names a parsed record can have: non-empty texts, with commas, double
\* quotes and a formula character
ExportAlphabet == {"=", ",", "\"", "a"}
ExportNames ==
    UNION {[1..n -> ExportAlphabet] : n \in 1..MaxCellLen}

\* a result set of two records: a parsed record under the name given, and
\* the parsed record itself
ExportRecords(name) ==
    LET lead == searchLeads[2][1][1]
    IN  <<[lead EXCEPT !.name = name], lead>>

\* the csvContent that handleExportAll builds for a result set
ProbeExport(name) ==
    /\ probe = NoProbe
    /\ name \in ExportNames
    /\ LET records == ExportRecords(name)
       IN  probe' = [fn |-> "csvContent", arg |-> records, calls |-> 0,
                     out |-> csvContent(records)]
    /\ lastStep' = "probe"
    /\ UNCHANGED <<leads, isLoading, error, activeTab, searchQuery,
                   searchHistory, isScrapingAll, visibleLeadsCount,
                   selectedBusinessId, storage, searches, scrapes, now,
                   started, coordinatesMap, runTrace, download>>

NextProbe ==
    \/ \E segments \in ParserInputs : ProbeParse(segments)
    \/ \E businesses \in ProbeRequests, response \in ProbeGeocodeResponses :
         ProbeGeocode(businesses, response)
    \/ \E websiteUrl \in ProbeUrls, response \in ScrapeResponses :
         ProbeScrape(websiteUrl, response)
    \/ \E cellData \in ProbeCells : ProbeEscape(cellData)
    \/ \E markdown \in ScenarioTexts : ProbeScenario(markdown)
    \/ \E item \in StoredItems : ProbeMount(item)
    \/ \E name \in ExportNames : ProbeExport(name)

SpecProbe == InitWith({0}) /\ [][NextProbe]_vars

(***************************************************************************)
(* Properties.                                                             *)
(***************************************************************************)
Range(seq) == {seq[k] : k \in 1..Len(seq)}

\* the handleScrape invocations that handleScrapeAll awaits
RunCalls(tasks) == {t \in Range(tasks) : t.all}

\* the records of ls with the given id
WithId(ls, id) == {k \in 1..Len(ls) : ls[k].id = id}

\* C1: at most one search is in flight at any time: a second handleSearch
\* cannot start while an earlier one still awaits FindBusinesses or
\* GeocodeBatch, whether it is started from the form or from a Rerun button.
AtMostOneSearchInFlight == Len(searches) <= 1

\* C2: whenever the scrape-all loop issues a Contact Extractor call, the
\* target record of the current result set has, at that moment, no
\* scrapedData and no scrapeError.
ScrapeAllCallsOnlyUnscraped ==
    [][\A t \in RunCalls(scrapes') \ RunCalls(scrapes) :
          \A k \in WithId(leads, t.id) :
              /\ leads[k].scrapedData = None
              /\ leads[k].scrapeError = None]_vars

\* a coordinate that is present and a number
HasCoordinate(c) == c # None /\ ~isNaN(c[1])

BothOrNeither(lead) == HasCoordinate(lead.latitude) <=> HasCoordinate(lead.longitude)

\* C3: every record of the current result set, every record the parser
\* returned to a search still in flight, and every pair of the geocoder's
\* result has both latitude and longitude or neither.
CoordinatesAllOrNothing ==
    /\ \A k \in 1..Len(leads) : BothOrNeither(leads[k])
    /\ \A s \in 1..Len(searches) :
         \A k \in 1..Len(searches[s].results) : BothOrNeither(searches[s].results[k])
    /\ \A id \in DOMAIN coordinatesMap :
         isNaN(coordinatesMap[id].latitude) = isNaN(coordinatesMap[id].longitude)

\* C3 witness: a merged result set in which the geocoder resolved one record
\* and another record, whose coordinates line had one number, has none
CoordinatesWitness ==
    /\ lastStep = "geocodeReturn"
    /\ \E i \in 1..Len(leads) :
         /\ leads[i].id \in DOMAIN coordinatesMap
         /\ HasCoordinate(leads[i].latitude) /\ HasCoordinate(leads[i].longitude)
    /\ \E j \in 1..Len(leads) :
         leads[j].latitude = None /\ leads[j].longitude = None

\* C4: when the FindBusinesses call of a search fails, the search ends with
\* an error message set, an empty result set, the loading flag cleared, no
\* geocoder call and no history entry added.
SearchFailureEndsInIdleError ==
    [][lastStep' = "findFail" =>
          /\ error' # None
          /\ leads' = <<>>
          /\ isLoading' = FALSE
          /\ coordinatesMap' = coordinatesMap
          /\ \A s \in 1..Len(searches') : searches'[s] \in Range(searches)
          /\ searchHistory' = searchHistory
          /\ storage' = storage]_vars

\* C5: when the GeocodeBatch call throws or its text is not JSON,
\* geocodeAddresses returns an empty Map and the search completes: the result
\* set is the parsed records unchanged, no error message is set, and the
\* history has an entry for the query at the front.
GeocodingFailsSoft ==
    [][lastStep' = "geocodeFail" =>
          /\ coordinatesMap' = << >>
          /\ \E s \in 1..Len(searches) :
               /\ searches[s].phase = "geocode"
               /\ searches' = RemoveAt(searches, s)
               /\ leads' = searches[s].results
               /\ Len(searchHistory') >= 1
               /\ searchHistory'[1] = [query |-> searches[s].query,
                                       resultCount |-> Len(searches[s].results)]
          /\ error' = None]_vars

\* the number of entries of a log with the given query
CountQuery(log, query) == Cardinality({k \in 1..Len(log) : log[k].query = query})

\* the steps in which a handleSearch invocation completes successfully
SearchCompleted == {"findReturn", "geocodeReturn", "geocodeFail"}

\* C6: the history log never has more than 20 entries nor two entries with
\* the same query text, and a search that completes leaves exactly one entry
\* for its query, at the front of the log.
HistoryBoundedAndDeduplicated ==
    /\ [](/\ Len(searchHistory) <= 20
          /\ \A i, j \in 1..Len(searchHistory) :
                searchHistory[i].query = searchHistory[j].query => i = j)
    /\ [][\A s \in 1..Len(searches) :
             (lastStep' \in SearchCompleted /\ searches' = RemoveAt(searches, s))
             => /\ Len(searchHistory') >= 1
                /\ searchHistory'[1].query = searches[s].query
                /\ CountQuery(searchHistory', searches[s].query) = 1]_vars

\* C6 witness: on a full log, a new query was searched, which pushed the
\* oldest entry out, and then the oldest remaining entry was rerun, which
\* moved it to the front
HistoryWitness ==
    /\ lastStep \in SearchCompleted
    /\ Len(searchHistory) = HISTORY_LIMIT
    /\ searchHistory[1].query = StoredQuery(HISTORY_LIMIT - 1)
    /\ searchHistory[2].query = <<"a">>
    /\ CountQuery(searchHistory, StoredQuery(HISTORY_LIMIT)) = 0

\* C7: a scrape-all run started when the previous run has finished and
\* nothing but that run has acted since its click issues no Contact
\* Extractor call and leaves every record unchanged.
SecondScrapeAllIsIdle ==
    [][(runTrace \in {"finished", "again"} /\ lastStep' = "scrapeAll")
          => (scrapes' = scrapes /\ leads' = leads /\ ~isScrapingAll')]_vars

\* C7 witness: the second run has ended, after a first run in which one
\* record was scraped and another failed
SecondScrapeAllWitness ==
    /\ runTrace = "again"
    /\ lastStep = "scrapeAll"
    /\ \E i, j \in 1..Len(leads) :
         /\ leads[i].scrapedData # None
         /\ leads[j].scrapedData = None /\ leads[j].scrapeError # None

\* C8: within a scrape-all run at most one Contact Extractor call is pending,
\* and the calls follow the order of the array the run iterates: a new call
\* is for a later position of the same array than the call it follows, and
\* the first call of a run is for a record of the result set as it is at the
\* click.
ScrapeAllIsSequential ==
    /\ [](Cardinality({k \in 1..Len(scrapes) : scrapes[k].all}) <= 1)
    /\ [][\A t \in RunCalls(scrapes') \ RunCalls(scrapes) :
             /\ \A u \in RunCalls(scrapes) :
                   /\ u \notin Range(scrapes')
                   /\ t.snapshot = u.snapshot
                   /\ t.idx > u.idx
             /\ RunCalls(scrapes) = {} => t.snapshot = leads
             /\ t.id = t.snapshot[t.idx].id]_vars

\* C8 witness: the run awaits the call for its second record, the first one
\* being done
ScrapeAllSequentialWitness ==
    /\ isScrapingAll
    /\ Len(leads) = 2
    /\ leads[1].isScraping = Some(FALSE)
    /\ leads[2].isScraping = Some(TRUE)
    /\ \E t \in RunCalls(scrapes) : t.idx = 2 /\ t.id = leads[2].id

\* the positions after i of the array a run iterates at which the loop will
\* suspend on a backend call
Remaining(snapshot, i) ==
    {m \in (i + 1)..Len(snapshot) :
        eligible(snapshot[m]) /\ ~invalidUrl(snapshot[m].website[1])}

\* C9, the step: when the call a scrape-all run awaits fails, the record gets
\* the failure message, no record is added or removed, the records the loop
\* has not reached keep their contact data, and the loop goes on: the call
\* for the next record that needs one is pending, or none is left and the
\* scrape-all flag is cleared.
FailedScrapeStep ==
    \A u \in RunCalls(scrapes) :
       (lastStep' = "scrapeAllFail" /\ u \notin Range(scrapes'))
       => /\ Len(leads') = Len(leads)
          /\ \A k \in 1..Len(leads) :
                /\ leads'[k].id = leads[k].id
                /\ leads'[k].scrapedData = leads[k].scrapedData
                /\ leads[k].id = u.id
                      => /\ leads'[k].scrapeError = Some(scrapeFailedMessage(u.url))
                         /\ leads'[k].isScraping = Some(FALSE)
                /\ (leads[k].id # u.id
                      /\ \A m \in (u.idx + 1)..Len(u.snapshot) :
                            u.snapshot[m].id # leads[k].id)
                      => leads'[k] = leads[k]
          /\ LET rem == Remaining(u.snapshot, u.idx)
             IN  IF rem = {}
                 THEN RunCalls(scrapes') = {} /\ ~isScrapingAll'
                 ELSE /\ isScrapingAll'
                      /\ \E t \in RunCalls(scrapes') :
                            /\ t.idx \in rem
                            /\ \A m \in rem : t.idx <= m

\* C9: a failing scrape does not halt scrape all, and the run ends: once
\* every call the run awaits is answered, the scrape-all flag is cleared.
FailedScrapeDoesNotHaltScrapeAll ==
    /\ [][FailedScrapeStep]_vars
    /\ (isScrapingAll ~> ~isScrapingAll)

\* C9 witness: the first record of the run has failed and the run awaits the
\* call for the second
FailedScrapeWitness ==
    /\ lastStep = "scrapeAllFail"
    /\ isScrapingAll
    /\ Len(leads) = 2
    /\ leads[1].scrapeError # None
    /\ leads[2].isScraping = Some(TRUE)
    /\ \E t \in RunCalls(scrapes) : t.idx = 2

\* the number of pending calls for a record
PendingFor(tasks, id) == Cardinality({k \in 1..Len(tasks) : tasks[k].id = id})

ScrapeStates(lead) ==
    Cardinality({x \in {"in-progress", "succeeded", "failed"} :
                   \/ x = "in-progress" /\ lead.isScraping = Some(TRUE)
                   \/ x = "succeeded" /\ lead.scrapedData # None
                   \/ x = "failed" /\ lead.scrapeError # None})

\* C11: every record of the current result set is in at most one of the
\* scrape states in-progress (isScraping true), succeeded (scrapedData
\* present) and failed (scrapeError present).
OneScrapeStatePerRecord ==
    \A k \in 1..Len(leads) : ScrapeStates(leads[k]) <= 1

\* the steps of the scrape orchestrator
ScrapeSteps ==
    {"scrapeClick", "scrapeAll", "scrapeAllReturn", "scrapeAllFail",
     "scrapeReturn", "scrapeFail"}

\* the ids handleScrape is called with or resumes for in a step: those of
\* the calls that were pending or are pending now, and those of the records
\* whose url scrapeContacts rejects without a backend call
ScrapedIds ==
    {scrapes[k].id : k \in 1..Len(scrapes)}
        \cup {scrapes'[k].id : k \in 1..Len(scrapes')}
        \cup {leads[k].id : k \in {j \in 1..Len(leads) :
                                     /\ truthyText(leads[j].website)
                                     /\ invalidUrl(leads[j].website[1])}}

\* lead with its three scrape fields blanked
WithoutScrapeFields(lead) ==
    [lead EXCEPT !.isScraping = None, !.scrapedData = None, !.scrapeError = None]

\* C12: a step of handleScrape or handleScrapeAll keeps the sequence of
\* record ids, changes no field other than isScraping, scrapedData and
\* scrapeError, and changes only records whose id is a scraped id.
ScrapeKeepsRecords ==
    [][lastStep' \in ScrapeSteps =>
          /\ Len(leads') = Len(leads)
          /\ \A k \in 1..Len(leads) :
               /\ WithoutScrapeFields(leads'[k]) = WithoutScrapeFields(leads[k])
               /\ leads'[k] # leads[k] => leads[k].id \in ScrapedIds]_vars

\* C12 witness: the call for one record has succeeded while a second record
\* of the result set has never been scraped
ScrapeKeepsRecordsWitness ==
    /\ lastStep = "scrapeReturn"
    /\ \E i, j \in 1..Len(leads) :
         /\ leads[i].scrapedData # None
         /\ leads[j].isScraping = None
         /\ leads[j].scrapedData = None
         /\ leads[j].scrapeError = None

\* a query handleSearch does not accept
RejectedQuery(q) == q = <<>> \/ q = PLACEHOLDER_TEXT

\* C13: a search invoked with the empty query or with the placeholder text,
\* from the form or from a Rerun button, makes no backend call and leaves
\* the results, the selection, the pagination window, the error message, the
\* loading flag and the history as they were.
EmptyQueryIsRejected ==
    [][(\/ lastStep' = "submit" /\ RejectedQuery(searchQuery)
        \/ lastStep' = "rerun" /\ RejectedQuery(searchQuery'))
       => /\ searches' = searches
          /\ started' = started
          /\ leads' = leads
          /\ selectedBusinessId' = selectedBusinessId
          /\ visibleLeadsCount' = visibleLeadsCount
          /\ error' = error
          /\ isLoading' = isLoading
          /\ searchHistory' = searchHistory
          /\ storage' = storage]_vars

\* C13 witness: the form was submitted with the empty query, on a history
\* that has an entry
EmptyQueryWitness ==
    /\ lastStep = "submit"
    /\ searchQuery = <<>>
    /\ searches = <<>>
    /\ Len(searchHistory) > 0

\* the segments of an answer that are not blank
NonEmptySegments(segments) == {k \in 1..Len(segments) : ~segments[k].blank}

\* C14: parseLeads returns at most as many records as the text has non-empty
\* segments, every record has a non-empty name and a non-empty address, and
\* a segment without an address line, or with an empty address value, gives
\* no record.
ParserKeepsNamedAddressedSegments ==
    probe.fn = "parseLeads" =>
        /\ Len(probe.out) <= Cardinality(NonEmptySegments(probe.arg))
        /\ \A k \in 1..Len(probe.out) :
             probe.out[k].name # <<>> /\ probe.out[k].address # <<>>
        /\ \A k \in 1..Len(probe.arg) :
             ~probe.arg[k].address =>
                 \A j \in 1..Len(probe.out) : probe.out[j].name # probe.arg[k].name
        /\ Len(probe.out) <= Cardinality({k \in 1..Len(probe.arg) :
                                            probe.arg[k].address})

\* C14 witness: a text of three segments, one of them without an address,
\* from which the parser returned records
ParserWitness ==
    /\ probe.fn = "parseLeads"
    /\ Len(probe.arg) = 3
    /\ \E k \in 1..3 : ~probe.arg[k].address /\ ~probe.arg[k].blank
    /\ Len(probe.out) >= 1

\* C15: geocodeAddresses called with an empty request list returns an empty
\* Map and makes no backend call, whatever the backend would have answered.
EmptyGeocodeRequestIsLocal ==
    (probe.fn = "geocodeAddresses" /\ probe.arg.businesses = <<>>) =>
        /\ probe.out = << >>
        /\ probe.calls = 0

\* C15 witness: the empty request, with a backend that has coordinates ready
EmptyGeocodeRequestWitness ==
    /\ probe.fn = "geocodeAddresses"
    /\ probe.arg.businesses = <<>>
    /\ probe.arg.response.kind = "json"
    /\ \E id \in DOMAIN probe.arg.response.data :
         /\ probe.arg.response.data[id] # None
         /\ geocodeEntry(probe.arg.response.data[id][1]) # None

\* a latitude or longitude value that parses as a number
ParsesAsNumber(v) == ~isNaN(parseFloatValue(v))

\* C16: for a non-empty request answered with a JSON object, an id of the
\* answer is in the result Map if and only if its latitude and its longitude
\* both parse as numbers, 0 included; the other ids of the answer do not
\* matter.
GeocodeKeepsExactlyParsablePairs ==
    (/\ probe.fn = "geocodeAddresses"
     /\ probe.arg.businesses # <<>>
     /\ probe.arg.response.kind = "json") =>
        \A id \in DOMAIN probe.arg.response.data :
            id \in DOMAIN probe.out
                <=> /\ probe.arg.response.data[id] # None
                    /\ ParsesAsNumber(probe.arg.response.data[id][1].latitude)
                    /\ ParsesAsNumber(probe.arg.response.data[id][1].longitude)

\* a url that begins with the scheme http or https
HasHttpScheme(url) ==
    \/ startsWith(url, <<"h", "t", "t", "p", ":", "/", "/">>)
    \/ startsWith(url, <<"h", "t", "t", "p", "s", ":", "/", "/">>)

\* C17: scrapeContacts called with a url that is empty or does not begin
\* with an HTTP scheme fails with the invalid-url error and issues no backend
\* call.
UrlWithoutHttpSchemeIsRejected ==
    (probe.fn = "scrapeContacts" /\ ~HasHttpScheme(probe.arg.websiteUrl)) =>
        /\ probe.out = [ok |-> FALSE, message |-> InvalidUrlMessage]
        /\ probe.calls = 0

\* the characters with which a spreadsheet formula begins
InjectionChars == {"=", "+", "-", "@"}

\* the text of a cell value with the quote prepended where the export has to
PrefixedText(text) ==
    IF text # <<>> /\ text[1] \in InjectionChars THEN <<"'">> \o text ELSE text

\* an exported cell without the double quotes that enclose it when its text
\* has a comma
Unwrapped(cell, text) ==
    IF includes(text, Comma) /\ Len(cell) >= 2
    THEN SubSeq(cell, 2, Len(cell) - 1)
    ELSE cell

\* C18: a cell whose value starts with one of = + - @ is exported with a
\* single quote before that character, and no exported cell, its enclosing
\* double quotes aside, begins with one of these characters.
FormulaCellsAreQuotePrefixed ==
    probe.fn = "escapeCsvCell" =>
        LET text == cellString(probe.arg)
            cell == Unwrapped(probe.out, text)
        IN  /\ (text # <<>> /\ text[1] \in InjectionChars) =>
                 /\ Len(cell) >= 2
                 /\ cell[1] = "'"
                 /\ cell[2] = text[1]
            /\ cell = <<>> \/ cell[1] \notin InjectionChars

\* C18 witness: a cell whose text starts with @ and has a comma
FormulaCellWitness ==
    /\ probe.fn = "escapeCsvCell"
    /\ probe.arg.t = "string"
    /\ Len(probe.arg.s) = 3
    /\ probe.arg.s[1] = "@"
    /\ includes(probe.arg.s, Comma)

\* a text with every pair of double quotes replaced by one
RECURSIVE Undoubled(_)
Undoubled(s) ==
    IF s = <<>> THEN <<>>
    ELSE IF Len(s) >= 2 /\ s[1] = "\"" /\ s[2] = "\""
    THEN <<"\"">> \o Undoubled(SubSeq(s, 3, Len(s)))
    ELSE <<Head(s)>> \o Undoubled(Tail(s))

QuoteCount(s) == Cardinality({k \in 1..Len(s) : s[k] = "\""})

\* C19: a cell whose text, with the quote prefix if it gets one, has a comma
\* is exported between double quotes with each of its double quotes doubled;
\* an absent value is exported as the empty text.
CommaCellsAreQuoted ==
    probe.fn = "escapeCsvCell" =>
        LET text  == PrefixedText(cellString(probe.arg))
            cell  == probe.out
            inner == SubSeq(cell, 2, Len(cell) - 1)
        IN  /\ includes(text, Comma) =>
                 /\ Len(cell) >= 2
                 /\ cell[1] = "\"" /\ cell[Len(cell)] = "\""
                 /\ Len(inner) = Len(text) + QuoteCount(text)
                 /\ Undoubled(inner) = text
            /\ probe.arg = Undefined => cell = <<>>

\* C19 witness: a cell whose text has a comma and a double quote
CommaCellWitness ==
    /\ probe.fn = "escapeCsvCell"
    /\ probe.arg.t = "string"
    /\ includes(probe.arg.s, Comma)
    /\ includes(probe.arg.s, <<"\"">>)

\* the header row of leads.csv
HeaderRow ==
    <<"N", "a", "m", "e", ",", "A", "d", "d", "r", "e", "s", "s", ",", "T",
      "y", "p", "e", ",", "P", "h", "o", "n", "e", ",", "R", "a", "t", "i",
      "n", "g", ",", "R", "e", "v", "i", "e", "w", "s", ",", "W", "e", "b",
      "s", "i", "t", "e", ",", "S", "c", "r", "a", "p", "e", "d", " ", "E",
      "m", "a", "i", "l", "s", ",", "S", "c", "r", "a", "p", "e", "d", " ",
      "P", "h", "o", "n", "e", "s", ",", "S", "c", "r", "a", "p", "e", "d",
      " ", "S", "o", "c", "i", "a", "l", "s">>

\* the state of the application, without the observers, is left as it was
AppStateUnchanged ==
    UNCHANGED <<leads, isLoading, error, activeTab, searchQuery,
                searchHistory, isScrapingAll, visibleLeadsCount,
                selectedBusinessId, storage, searches, scrapes>>

\* C20: an export of an empty result set produces no file and changes no
\* state; an export of a non-empty result set changes no state and produces
\* a file of one header row followed by one row for each record, in the
\* order of the result set.
ExportWritesOneRowPerRecord ==
    [][lastStep' \in {"export", "exportEmpty"} =>
          /\ AppStateUnchanged
          /\ Len(leads) = 0 => (lastStep' = "exportEmpty" /\ download' = download)
          /\ Len(leads) > 0 =>
               /\ lastStep' = "export"
               /\ download' # None
               /\ LET rows == split(download'[1], NewLine)
                  IN  /\ Len(rows) = Len(leads) + 1
                      /\ rows[1] = HeaderRow
                      /\ \A k \in 1..Len(leads) :
                           startsWith(rows[k + 1], leads[k].name \o Comma)]_vars

\* C20 witness: an export of the empty result set, after an export of two
\* records had produced a file
ExportWitness ==
    /\ lastStep = "exportEmpty"
    /\ download # None
    /\ Len(split(download[1], NewLine)) = 3

\* the 0-based position of the record a selection step was for: the record
\* selected now or, when the step toggled the selection off, the one that
\* was selected
SelectedIndex ==
    findIndex(leads, IF selectedBusinessId' # None THEN selectedBusinessId'[1]
                     ELSE selectedBusinessId[1])

\* C21: after a selection event for a record outside the visible window the
\* record's index is less than the visible count, the window having grown;
\* a selection event for a record inside the window leaves the count as it
\* was.
SelectionExpandsWindow ==
    [][lastStep' \in {"selectCard", "markerClick"} =>
          /\ SelectedIndex >= 0
          /\ SelectedIndex < visibleLeadsCount'
          /\ SelectedIndex >= visibleLeadsCount
                => visibleLeadsCount' > visibleLeadsCount
          /\ SelectedIndex < visibleLeadsCount
                => visibleLeadsCount' = visibleLeadsCount]_vars

\* C21 witness: the marker of the last record of the long result set was
\* clicked while the window was one page, and the window now ends at it
SelectionWitness ==
    /\ lastStep = "markerClick"
    /\ Len(leads) = LongAnswerRecords
    /\ selectedBusinessId = Some(leads[Len(leads)].id)
    /\ visibleLeadsCount = Len(leads)

\* lead with its coordinates blanked
WithoutCoordinates(lead) == [lead EXCEPT !.latitude = None, !.longitude = None]

\* the result set after the step is made of the records parsed, in parse
\* order, none of them scraped, and has no record of the set it replaces
ReplacedBy(parsed) ==
    /\ Len(leads') = Len(parsed)
    /\ \A k \in 1..Len(parsed) :
         /\ WithoutCoordinates(leads'[k]) = WithoutCoordinates(parsed[k])
         /\ leads'[k].scrapedData = None
         /\ leads'[k].isScraping = None
         /\ leads'[k].scrapeError = None
         /\ \A j \in 1..Len(leads) : leads[j].id # leads'[k].id

\* C22: when a search completes, the result set is exactly the records
\* parsed for that search, in parse order, with no record and no scraped
\* data of an earlier search.
SearchReplacesResults ==
    [][\A s \in 1..Len(searches) :
          (lastStep' \in SearchCompleted /\ searches' = RemoveAt(searches, s))
          => IF searches[s].phase = "geocode"
             THEN ReplacedBy(searches[s].results)
             ELSE \E r \in 1..Len(Markdowns) : ReplacedBy(searchLeads[r][now'])]_vars

\* C22 witness: a second search has completed with records while a scrape of
\* a record of the first is still pending
SearchReplacesWitness ==
    /\ lastStep \in SearchCompleted
    /\ started = 2
    /\ Len(leads) > 0
    /\ \E t \in Range(scrapes) : \A k \in 1..Len(leads) : leads[k].id # t.id

\* C23: at most one scrape-all run is in flight: the scrape-all flag is set
\* as long as the loop of a run awaits a call, a run starts only when no
\* loop awaits a call, and this is so when a search replaces the result set
\* during the run.
AtMostOneScrapeAllRun ==
    /\ [](/\ Cardinality({k \in 1..Len(scrapes) : scrapes[k].all}) <= 1
          /\ RunCalls(scrapes) # {} => isScrapingAll)
    /\ [][lastStep' = "scrapeAll" => RunCalls(scrapes) = {}]_vars

\* C23 witness: a run awaits a call for a record of a result set that a new
\* search has replaced, and the new result set is on display
ScrapeAllRunWitness ==
    /\ isScrapingAll
    /\ Len(leads) > 0
    /\ \E t \in RunCalls(scrapes) : \A k \in 1..Len(leads) : leads[k].id # t.id

\* the first entry of the log after the step is for the query, with the
\* number of parsed records as its count, and the log is the stored one
LoggedFirst(query, parsed) ==
    /\ Len(searchHistory') >= 1
    /\ searchHistory'[1] = [query |-> query, resultCount |-> Len(parsed)]
    /\ storage' = Some(searchHistory')

\* C24: when a search for a query completes, the first entry of the history
\* log has that query and the number of records the parse step returned,
\* whether the geocoder was skipped, answered or failed; and the stored log
\* is the log in memory.
HistoryRecordsParsedCount ==
    /\ [][\A s \in 1..Len(searches) :
             (lastStep' \in SearchCompleted /\ searches' = RemoveAt(searches, s))
             => IF searches[s].phase = "geocode"
                THEN LoggedFirst(searches[s].query, searches[s].results)
                ELSE \E r \in 1..Len(Markdowns) :
                        /\ leads' = searchLeads[r][now']
                        /\ LoggedFirst(searches[s].query, leads')]_vars
    /\ [](IF storage = None THEN searchHistory = <<>>
          ELSE storage = Some(searchHistory))

\* C24 witness: a search whose two records the geocoder left without
\* coordinates for one of them has logged a count of two
HistoryCountWitness ==
    /\ lastStep \in {"geocodeReturn", "geocodeFail"}
    /\ Len(leads) = 2
    /\ leads[2].latitude = None
    /\ searchHistory[1] = [query |-> <<"a">>, resultCount |-> 2]
    /\ storage = Some(searchHistory)

\* no string occurs twice in the sequence
NoDuplicates(seq) == \A i, j \in 1..Len(seq) : seq[i] = seq[j] => i = j

\* C25: every contact bundle scrapeContacts returns has no string twice in
\* its emails, none twice in its phones and none twice in its social links,
\* whatever the backend answered.
ContactBundleHasNoDuplicates ==
    (probe.fn = "scrapeContacts" /\ probe.out.ok) =>
        /\ NoDuplicates(probe.out.value.emails)
        /\ NoDuplicates(probe.out.value.phones)
        /\ NoDuplicates(probe.out.value.socials)

\* the FindBusinesses answers without a valid segment
NoRecordAnswers == {3}

\* C26: when the FindBusinesses answer of a search has no valid segment, the
\* parser returns the empty sequence and the search completes: no error
\* message is set, the result set is empty, the geocoder is not called and
\* the history gets an entry for the query with resultCount 0.
SearchWithoutRecordsSucceeds ==
    [][\A k \in 1..Len(searches) : \A r \in NoRecordAnswers :
          FindBusinessesReturn(k, r)
          => /\ searchLeads[r][now'] = <<>>
             /\ error' = None
             /\ leads' = <<>>
             /\ searches' = RemoveAt(searches, k)
             /\ coordinatesMap' = coordinatesMap
             /\ Len(searchHistory') >= 1
             /\ searchHistory'[1] = [query |-> searches[k].query,
                                     resultCount |-> 0]]_vars

\* a stored item that is the serialized form of a history log: a JSON array
\* of history entries
ValidStoredLog(item) ==
    /\ item.kind = "json"
    /\ item.value.t = "array"
    /\ \A k \in 1..Len(item.value.elems) : item.value.elems[k] = "entry"

\* C27: for every stored value that is not a valid serialized history log,
\* the history in memory after startup is the empty log.
CorruptStoredHistoryIsEmptied ==
    (probe.fn = "mount" /\ ~ValidStoredLog(probe.arg)) =>
        probe.out = JsonArray(<<>>)

\* C28: the scenario text parses to exactly one record, with the name
\* "Acme Plumbing", the address "1 Main St, Springfield", the phone
\* "555-1111" and no coordinates.
ScenarioParsesToOneRecord ==
    probe.fn = "parseScenario" =>
        /\ Len(probe.out) = 1
        /\ probe.out[1].name =
             <<"A", "c", "m", "e", " ", "P", "l", "u", "m", "b", "i", "n",
               "g">>
        /\ probe.out[1].address =
             <<"1", " ", "M", "a", "i", "n", " ", "S", "t", ",", " ", "S",
               "p", "r", "i", "n", "g", "f", "i", "e", "l", "d">>
        /\ probe.out[1].phone =
             Some(<<"5", "5", "5", "-", "1", "1", "1", "1">>)
        /\ probe.out[1].latitude = None
        /\ probe.out[1].longitude = None

\* C28 witness: the parser was given the scenario text as it is written and
\* returned a record
ScenarioWitness ==
    /\ probe.fn = "parseScenario"
    /\ probe.arg = ScenarioMarkdown
    /\ Len(probe.out) > 0

\* the steps in which a handleSearch invocation is accepted and starts
SearchStarted == lastStep' \in {"submit", "rerun"} /\ started' = started + 1

\* C29: the step that starts a search empties the result set, clears the
\* selection and the error message and sets the visible count to the page
\* size of 10, all at once; and the result set is empty as long as a search
\* is in flight, so that no parsed record is on display before the search
\* has completed or failed.
EnteringSearchClearsResults ==
    /\ [][SearchStarted =>
             /\ leads' = <<>>
             /\ selectedBusinessId' = None
             /\ visibleLeadsCount' = 10
             /\ error' = None
             /\ isLoading']_vars
    /\ [](Len(searches) > 0 => leads = <<>>)

\* C30: when the geocoder has answered, the result set has the ids of the
\* parsed records in their order, every record whose id is in the Map has
\* the pair of the Map as its coordinates and its other fields as parsed,
\* and every record whose id is not in the Map is as parsed.
MergeIsById ==
    [][\A s \in 1..Len(searches) :
          (/\ lastStep' \in {"geocodeReturn", "geocodeFail"}
           /\ searches[s].phase = "geocode"
           /\ searches' = RemoveAt(searches, s))
          => LET parsed == searches[s].results
             IN  /\ Len(leads') = Len(parsed)
                 /\ \A k \in 1..Len(parsed) :
                      /\ leads'[k].id = parsed[k].id
                      /\ IF parsed[k].id \in DOMAIN coordinatesMap'
                         THEN /\ leads'[k].latitude =
                                   Some(coordinatesMap'[parsed[k].id].latitude)
                              /\ leads'[k].longitude =
                                   Some(coordinatesMap'[parsed[k].id].longitude)
                              /\ WithoutCoordinates(leads'[k])
                                   = WithoutCoordinates(parsed[k])
                         ELSE leads'[k] = parsed[k]]_vars

\* C30 witness: the geocoder resolved the second record only, and the first
\* record has the coordinates its segment carried
MergeWitness ==
    /\ lastStep = "geocodeReturn"
    /\ Len(leads) = 2
    /\ leads[1].id \notin DOMAIN coordinatesMap
    /\ leads[1].latitude = Some(Normalise(45, 1))
    /\ leads[2].id \in DOMAIN coordinatesMap
    /\ leads[2].latitude = Some(coordinatesMap[leads[2].id].latitude)

\* the searches that wait for the answer of their GeocodeBatch call
Geocoding == {s \in Range(searches) : s.phase = "geocode"}

\* the record has no latitude or no longitude
LacksCoordinates(lead) == lead.latitude = None \/ lead.longitude = None

\* the ids of the records that have an address and lack coordinates
IdsToResolve(parsed) ==
    {parsed[k].id : k \in {j \in 1..Len(parsed) :
                             /\ parsed[j].address # <<>>
                             /\ LacksCoordinates(parsed[j])}}

\* C31: within one search the GeocodeBatch call is issued only when the
\* FindBusinesses call of that search returns, at most once (the search ends
\* with the answer of the geocoder), if and only if a parsed record lacks
\* coordinates, and its request has exactly the ids of the parsed records
\* that have a non-empty address and lack coordinates.
GeocodeFollowsFind ==
    /\ [][\A t \in Geocoding' \ Geocoding :
             /\ lastStep' = "findReturn"
             /\ \E k \in 1..Len(searches) :
                  /\ searches[k].phase = "find"
                  /\ searches' = [searches EXCEPT ![k] = t]
                  /\ t.query = searches[k].query
             /\ \E j \in 1..Len(t.results) : LacksCoordinates(t.results[j])
             /\ {t.request[j].id : j \in 1..Len(t.request)}
                  = IdsToResolve(t.results)
             /\ Len(t.request) = Cardinality(IdsToResolve(t.results))]_vars
    /\ [][(lastStep' = "findReturn" /\ Len(searches') < Len(searches))
             => \A j \in 1..Len(leads') : ~LacksCoordinates(leads'[j])]_vars
    /\ [][\A t \in Geocoding \ Geocoding' :
             /\ lastStep' \in {"geocodeReturn", "geocodeFail"}
             /\ \E k \in 1..Len(searches) :
                  searches[k] = t /\ searches' = RemoveAt(searches, k)]_vars

\* C31 witness: the parse step returned two records, one with coordinates,
\* and the request of the GeocodeBatch call has the id of the other one only
GeocodeRequestWitness ==
    \E k \in 1..Len(searches) :
       /\ searches[k].phase = "geocode"
       /\ Len(searches[k].results) = 2
       /\ ~LacksCoordinates(searches[k].results[1])
       /\ Len(searches[k].request) = 1
       /\ searches[k].request[1].id = searches[k].results[2].id

\* the steps with which a search ends: it completes or it fails
SearchEnded == SearchCompleted \cup {"findFail"}

\* C32: with several searches started from the form and from Rerun, the
\* loading flag is never false while a backend call of a search is in
\* flight, and the result set, the error message and the loading flag that
\* remain when all the searches have ended are those of the search started
\* last: no search ends while a search started before it is still in flight
\* (the end of that older search would write the state after it).
LatestSearchWins ==
    /\ [](Len(searches) > 0 => isLoading)
    /\ [][\A s \in 1..Len(searches) :
             (lastStep' \in SearchEnded /\ searches' = RemoveAt(searches, s))
             => \A j \in 1..(s - 1) : searches[j] = searches[s]]_vars

\* C33: no history entry is lost by interleaving: the log a completing
\* search writes is built from the log as it is when the search completes,
\* so every entry of that log for another query is still in the log after
\* the completion, unless the bound of 20 entries pushed it out.
NoHistoryEntryLost ==
    [][\A s \in 1..Len(searches) :
          (lastStep' \in SearchCompleted /\ searches' = RemoveAt(searches, s))
          => \A i \in 1..Len(searchHistory) :
                \/ searchHistory[i].query = searches[s].query
                \/ \E j \in 1..Len(searchHistory') :
                      searchHistory'[j] = searchHistory[i]
                \/ Len(searchHistory') = HISTORY_LIMIT]_vars

\* C34: clear-history empties the log in memory and the persisted log at
\* once, and no entry from before the clear comes back unless its query is
\* searched again, even when a search was in flight at the clear: the log
\* is empty only at first use and after a clear, and a search that completes
\* on an empty log leaves only the entry of its own query.
ClearHistoryIsDurable ==
    /\ [][lastStep' = "clearHistory"
             => searchHistory' = <<>> /\ storage' = Some(<<>>)]_vars
    /\ [][\A s \in 1..Len(searches) :
             (/\ lastStep' \in SearchCompleted
              /\ searches' = RemoveAt(searches, s)
              /\ searchHistory = <<>>)
             => \A j \in 1..Len(searchHistory') :
                   searchHistory'[j].query = searches[s].query]_vars

\* C35: in every reachable state the selection is null or the id of a
\* record of the current result set, and a selection event for the record
\* that is selected sets the selection back to null (no selection event
\* leaves the selection as it was).
SelectionIsOfCurrentResults ==
    /\ [](\/ selectedBusinessId = None
          \/ \E k \in 1..Len(leads) : leads[k].id = selectedBusinessId[1])
    /\ [][lastStep' \in {"selectCard", "markerClick"}
             => /\ selectedBusinessId' # selectedBusinessId
                /\ selectedBusinessId # None
                     => \/ selectedBusinessId' = None
                        \/ selectedBusinessId'[1] # selectedBusinessId[1]]_vars

\* C36: in every reachable state in which no search is in flight and a
\* search error message is set, the current result set is empty.
ErrorShownWithoutResults ==
    (searches = <<>> /\ error # None) => leads = <<>>

\* C37: reconciliation never overwrites coordinates obtained from the
\* parser: a record that came out of the parse step with coordinates has the
\* same coordinates in the final result set, for every answer of the
\* geocoder, an answer with ids that were not in the request included.
ParsedCoordinatesKept ==
    [][\A s \in 1..Len(searches) :
          (/\ lastStep' \in {"geocodeReturn", "geocodeFail"}
           /\ searches[s].phase = "geocode"
           /\ searches' = RemoveAt(searches, s))
          => LET parsed == searches[s].results
             IN  \A k \in 1..Len(parsed) :
                    ~LacksCoordinates(parsed[k])
                    => /\ k <= Len(leads')
                       /\ leads'[k].id = parsed[k].id
                       /\ leads'[k].latitude = parsed[k].latitude
                       /\ leads'[k].longitude = parsed[k].longitude]_vars

\* a reader of standard CSV: fields are separated by commas and rows by line
\* feeds; a field that begins with a double quote runs to the next double
\* quote that is not doubled, and its doubled double quotes stand for one.

\* the position of the double quote that closes the field opened at i, or
\* one past the end of the text if none does
closingQuote(text, i) ==
    LET ends == {j \in (i + 1)..Len(text) :
                   /\ text[j] = "\""
                   /\ QuoteCount(SubSeq(text, i + 1, j - 1)) % 2 = 0
                   /\ j = Len(text) \/ text[j + 1] # "\""}
    IN  IF ends = {} THEN Len(text) + 1
        ELSE CHOOSE j \in ends : \A k \in ends : j <= k

\* the position of the first comma or line feed from i on, or one past the
\* end of the text if there is none
separatorFrom(text, i) ==
    LET seps == {j \in i..Len(text) : text[j] \in {",", "\n"}}
    IN  IF seps = {} THEN Len(text) + 1
        ELSE CHOOSE j \in seps : \A k \in seps : j <= k

\* the rows of the text from the field that starts at i on, after the cells
\* of row and the rows of rows
RECURSIVE csvFields(_, _, _, _)
csvFields(text, i, row, rows) ==
    LET quoted == i <= Len(text) /\ text[i] = "\""
        close  == IF quoted THEN closingQuote(text, i) ELSE i - 1
        stop   == separatorFrom(text, close + 1)
        cell   == IF quoted
                  THEN Undoubled(SubSeq(text, i + 1, close - 1))
                          \o SubSeq(text, close + 1, stop - 1)
                  ELSE SubSeq(text, i, stop - 1)
    IN  IF stop > Len(text) THEN Append(rows, Append(row, cell))
        ELSE IF text[stop] = ","
        THEN csvFields(text, stop + 1, Append(row, cell), rows)
        ELSE csvFields(text, stop + 1, <<>>, Append(rows, Append(row, cell)))

\* the rows of a CSV text, each the sequence of its cells
parseCsv(text) == csvFields(text, 1, <<>>, <<>>)

\* the ten values of the row of a record, in the order of the header
ExportValues(lead) ==
    << JsString(lead.name), JsString(lead.address), JsString(lead.type),
       textCell(lead.phone), numberCell(lead.rating),
       numberCell(lead.reviews), textCell(lead.website),
       joinedCell(lead, "emails"), joinedCell(lead, "phones"),
       joinedCell(lead, "socials") >>

\* C38: the CSV export round-trips: for a record set whose values may hold
\* commas and double quotes, reading the exported text as standard CSV gives
\* the header row and then one row of exactly 10 cells per record, each cell
\* being the text of the value, with the single-quote prefix where the
\* export adds one.
CsvExportRoundTrips ==
    probe.fn = "csvContent" =>
        parseCsv(probe.out)
          = <<CsvHeaders>>
              \o [k \in 1..Len(probe.arg) |->
                    [c \in 1..10 |->
                       PrefixedText(cellString(ExportValues(probe.arg[k])[c]))]]
====
